---- MODULE Spec2Model ----
(***************************************************************************)
(* A model of python/sglang/srt/managers/schedule_batch.py: the request    *)
(* (Req) lifecycle with its stop conditions and prefix matching, and the   *)
(* batch (ScheduleBatch) operations over the request list and its parallel *)
(* arrays.                                                                 *)
(*                                                                         *)
(* Encoding of Python values:                                              *)
(*   - None of an integer-valued field (req_pool_idx, last_node, ...) is   *)
(*     the integer None, which no row, node or token id takes;             *)
(*   - Optional[List] and Optional[object] fields are sequences of length  *)
(*     0 (None) or 1 (the value): NoneVal, Some(v), Val(o);                *)
(*   - a text (Python str) is a sequence of one-character strings.         *)
(***************************************************************************)
EXTENDS Integers, Sequences, FiniteSets, TLC

VARIABLES
    reqs,       \* rid -> the fields of the Req object
    pc,         \* rid -> "idle" | "appended": a sampled token was appended and
                \*        check_finished has not run on it yet | "chunked": the
                \*        request is the scheduler's chunked_req
    op,         \* the operation that produced the current state, with its arguments
    err,        \* the exception the last operation raised ("none" when it returned)
    match_key,  \* the key the last operation handed to tree_cache.match_prefix
                \* or got from adjust_max_prefix_ids (empty when it did neither)
    running_batch,  \* the scheduler's running (decode) ScheduleBatch
    new_batch,      \* the prefill ScheduleBatch of the round (NoneVal when none)
    stage,          \* where each of the two batches is in its round
    req_to_token_pool,           \* ReqToTokenPool: free rows and the rows
    token_to_kv_pool_allocator,  \* the KV-slot allocator: its free slots
    tree_cache,                  \* the prefix cache
    evictions,  \* the calls of _evict_tree_cache_if_needed the last operation made
    global_server_args,  \* the ServerArgs the scheduler passes to retract_decode
    bid,                 \* the module's batch id counter
    model_worker_batches \* the ModelWorkerBatch objects handed to the worker, in order

bvars == <<running_batch, new_batch, stage, req_to_token_pool,
           token_to_kv_pool_allocator, tree_cache, evictions, global_server_args, bid, model_worker_batches>>

vars == <<reqs, pc, op, err, match_key, bvars>>

----------------------------------------------------------------------------
(* Bounds of the model *)

\* largest max_new_tokens a request is created with
MaxNewTokens == 2
\* largest logprob_start_len a request is created with
MaxLogprobStart == 2

----------------------------------------------------------------------------
(* Python values *)

None == -1
NoneVal == << >>
Some(v) == << v >>
Val(o) == o[1]

Max(a, b) == IF a >= b THEN a ELSE b
Min(a, b) == IF a <= b THEN a ELSE b

Last(s) == s[Len(s)]

\* s[:k] for k >= 0
SliceTo(s, k) == SubSeq(s, 1, Min(k, Len(s)))

\* s[-k:] for k >= 1
SliceLast(s, k) == IF k >= Len(s) THEN s ELSE SubSeq(s, Len(s) - k + 1, Len(s))

\* Python's `sub in text` on str
StrIn(sub, text) ==
    \E i \in 0..(Len(text) - Len(sub)) : SubSeq(text, i + 1, i + Len(sub)) = sub

----------------------------------------------------------------------------
(* Finish reasons *)

FINISH_NONE == [type |-> "None"]
FINISH_MATCHED_TOKEN(matched) == [type |-> "FINISH_MATCHED_TOKEN", matched |-> matched]
FINISH_MATCHED_STR(matched) == [type |-> "FINISH_MATCHED_STR", matched_str |-> matched]
FINISH_LENGTH(length) == [type |-> "FINISH_LENGTH", length |-> length]
FINISH_ABORT(message, status_code, err_type) ==
    [type |-> "FINISH_ABORT",
     message |-> IF message = "None" THEN "Aborted" ELSE message,
     status_code |-> status_code, err_type |-> err_type]

----------------------------------------------------------------------------
(* The tokenizer and the model's vocabulary *)

\* model_config.vocab_size: the valid token ids are 0 .. VocabSize - 1
VocabSize == 2

ValidIds == 0..(VocabSize - 1)

\* The ids the sampler can hand back: every valid id, and (corrupted sampling)
\* a negative id, the id VocabSize and an id above it.
SampledIds == (0 - 1)..(VocabSize + 1)

\* The text of one token: token 0 is "a", token 1 is "bc"; an id the
\* tokenizer does not know contributes no text.
TokenText(t) ==
    IF t = 0 THEN <<"a">> ELSE IF t = 1 THEN <<"b", "c">> ELSE << >>

RECURSIVE decode(_)
decode(ids) ==
    IF ids = << >> THEN << >> ELSE TokenText(ids[1]) \o decode(Tail(ids))

----------------------------------------------------------------------------
(* Req *)

\* Req.__init__: the fields of a new request
Req(origin_input_ids, sampling_params, return_logprob, logprob_start_len, eos_token_ids, tokenizer, grammar, decoded_text) ==
    [origin_input_ids |-> origin_input_ids,
     output_ids |-> << >>,
     fill_ids |-> << >>,
     sampling_params |-> sampling_params,
     req_pool_idx |-> None,
     tokenizer |-> tokenizer,
     finished_reason |-> FINISH_NONE,
     to_abort |-> FALSE,
     to_abort_message |-> "None",
     eos_token_ids |-> eos_token_ids,
     vocab_size |-> VocabSize,
     decoded_text |-> decoded_text,
     multimodal_inputs |-> None,
     prefix_indices |-> << >>,
     extend_input_len |-> 0,
     extend_logprob_start_len |-> 0,
     last_node |-> None,
     is_chunked |-> 0,
     is_retracted |-> FALSE,
     return_logprob |-> return_logprob,
     logprob_start_len |-> logprob_start_len,
     grammar |-> grammar,
     cached_tokens |-> 0,
     already_computed |-> 0,
     stream |-> FALSE,
     top_logprobs_num |-> 0,
     token_ids_logprob |-> NoneVal,
     return_hidden_states |-> FALSE,
     kv_cache_cpu |-> NoneVal]

seqlen(r) == Len(r.origin_input_ids) + Len(r.output_ids)

finished(r) == r.finished_reason # FINISH_NONE

\* lines 703-717: the stop/eos token test of check_finished
matched_eos(r) ==
    LET last_token_id == Last(r.output_ids) IN
    \/ r.sampling_params.stop_token_ids # {}
       /\ last_token_id \in r.sampling_params.stop_token_ids
    \/ r.eos_token_ids # {} /\ last_token_id \in r.eos_token_ids
    \/ r.tokenizer # NoneVal
       /\ \/ last_token_id = Val(r.tokenizer).eos_token_id
          \/ last_token_id \in Val(r.tokenizer).additional_stop_token_ids

\* line 721: the vocabulary range test of check_finished
invalid_token_id(r) ==
    LET last_token_id == Last(r.output_ids) IN
    last_token_id > r.vocab_size \/ last_token_id < 0

\* lines 722-725: the token written over an invalid last token; first_stop and
\* first_eos are next(iter(...)) of the two sets
rewritten_last_token(r, first_stop, first_eos) ==
    IF r.eos_token_ids # {} THEN first_eos
    ELSE IF r.sampling_params.stop_token_ids # {} THEN first_stop
    ELSE Last(r.output_ids)

\* lines 731-733
tail_str(r) ==
    decode(SliceLast(r.output_ids, r.sampling_params.stop_str_max_len + 1))

\* line 736
stop_str_matched(r, stop_str) ==
    StrIn(stop_str, tail_str(r)) \/ StrIn(stop_str, r.decoded_text)

\* lines 729-738: the first stop string of the list that matches, if any
check_stop_strs(r) ==
    LET stop_strs == r.sampling_params.stop_strs
        hits == {i \in 1..Len(stop_strs) : stop_str_matched(r, stop_strs[i])}
    IN  IF Len(stop_strs) > 0 /\ hits # {}
        THEN LET first == CHOOSE i \in hits : \A j \in hits : i <= j
             IN  [r EXCEPT !.finished_reason = FINISH_MATCHED_STR(stop_strs[first])]
        ELSE r

\* check_finished reads output_ids[-1] (line 698 or 701) of an empty list
check_finished_raises(r) ==
    /\ ~finished(r)
    /\ ~r.to_abort
    /\ ~(Len(r.output_ids) >= r.sampling_params.max_new_tokens)
    /\ Len(r.output_ids) = 0

\* lines 696-738: the conditions after abort and length
check_stop_conditions(r, first_stop, first_eos) ==
    IF r.grammar # "None" /\ r.grammar = "terminated"
    THEN [r EXCEPT !.finished_reason = FINISH_MATCHED_TOKEN(Last(r.output_ids))]
    ELSE IF ~r.sampling_params.ignore_eos /\ matched_eos(r)
    THEN [r EXCEPT !.finished_reason = FINISH_MATCHED_TOKEN(Last(r.output_ids))]
    ELSE IF invalid_token_id(r)
    THEN [r EXCEPT
            !.output_ids[Len(r.output_ids)] =
                rewritten_last_token(r, first_stop, first_eos),
            !.finished_reason = FINISH_MATCHED_STR(<<"NaN happened">>)]
    ELSE check_stop_strs(r)

\* check_finished with the length test ahead of the abort test
check_finished_length_before_abort(r, first_stop, first_eos) ==
    IF finished(r) THEN r
    ELSE IF Len(r.output_ids) >= r.sampling_params.max_new_tokens
    THEN [r EXCEPT !.finished_reason =
                       FINISH_LENGTH(r.sampling_params.max_new_tokens)]
    ELSE IF r.to_abort
    THEN [r EXCEPT !.finished_reason =
                       FINISH_ABORT(r.to_abort_message, "None", "None")]
    ELSE IF Len(r.output_ids) = 0 THEN r
    ELSE check_stop_conditions(r, first_stop, first_eos)

\* check_finished with the length test behind the stop conditions
check_finished_length_last(r, first_stop, first_eos) ==
    IF finished(r) THEN r
    ELSE IF r.to_abort
    THEN [r EXCEPT !.finished_reason =
                       FINISH_ABORT(r.to_abort_message, "None", "None")]
    ELSE LET r1 == IF Len(r.output_ids) = 0 THEN r
                   ELSE check_stop_conditions(r, first_stop, first_eos)
         IN  IF ~finished(r1)
                /\ Len(r.output_ids) >= r.sampling_params.max_new_tokens
             THEN [r EXCEPT !.finished_reason =
                                FINISH_LENGTH(r.sampling_params.max_new_tokens)]
             ELSE r1

\* check_finished that does not look at the abort flag
check_finished_skips_abort(r, first_stop, first_eos) ==
    IF finished(r) THEN r
    ELSE IF Len(r.output_ids) >= r.sampling_params.max_new_tokens
    THEN [r EXCEPT !.finished_reason =
                       FINISH_LENGTH(r.sampling_params.max_new_tokens)]
    ELSE IF Len(r.output_ids) = 0 THEN r
    ELSE check_stop_conditions(r, first_stop, first_eos)

\* Req.check_finished
check_finished(r, first_stop, first_eos) ==
    IF finished(r) THEN r
    ELSE IF r.to_abort
    THEN [r EXCEPT !.finished_reason =
                       FINISH_ABORT(r.to_abort_message, "None", "None")]
    ELSE IF Len(r.output_ids) >= r.sampling_params.max_new_tokens
    THEN [r EXCEPT !.finished_reason =
                       FINISH_LENGTH(r.sampling_params.max_new_tokens)]
    ELSE IF Len(r.output_ids) = 0 THEN r
    ELSE check_stop_conditions(r, first_stop, first_eos)

\* next(iter(s)) of a non-empty set is one of its elements; of an empty set
\* it is not evaluated
IterFirst(s) == IF s = {} THEN {None} ELSE s

\* Req.set_finish_with_abort
set_finish_with_abort(r, error_msg) ==
    [r EXCEPT !.multimodal_inputs = None,
              !.grammar = "None",
              !.origin_input_ids = <<0>>,
              !.return_logprob = FALSE,
              !.finished_reason =
                  FINISH_ABORT(error_msg, "BAD_REQUEST", "BadRequestError")]

\* Req.reset_for_retract
\* reset_for_retract that leaves req_pool_idx
reset_for_retract_keeps_row(r) ==
    [r EXCEPT !.prefix_indices = << >>, !.last_node = None,
              !.extend_input_len = 0, !.is_retracted = TRUE,
              !.extend_logprob_start_len = 0, !.is_chunked = 0,
              !.already_computed = 0]

\* reset_for_retract that drops the output tokens
reset_for_retract_clears_output_ids(r) ==
    [r EXCEPT !.prefix_indices = << >>, !.last_node = None,
              !.extend_input_len = 0, !.is_retracted = TRUE,
              !.extend_logprob_start_len = 0, !.is_chunked = 0,
              !.req_pool_idx = None, !.already_computed = 0,
              !.output_ids = << >>]

\* reset_for_retract that also zeroes cached_tokens
reset_for_retract_clears_cached_tokens(r) ==
    [r EXCEPT !.prefix_indices = << >>, !.last_node = None,
              !.extend_input_len = 0, !.is_retracted = TRUE,
              !.extend_logprob_start_len = 0, !.is_chunked = 0,
              !.req_pool_idx = None, !.already_computed = 0,
              !.cached_tokens = 0]

reset_for_retract(r) ==
    [r EXCEPT !.prefix_indices = << >>,
              !.last_node = None,
              !.extend_input_len = 0,
              !.is_retracted = TRUE,
              !.extend_logprob_start_len = 0,
              !.is_chunked = 0,
              !.req_pool_idx = None,
              !.already_computed = 0]

\* max_prefix_len without the cap at logprob_start_len
max_prefix_len_no_logprob_cap(r) ==
    Max(Len(r.origin_input_ids) + Len(r.output_ids) - 1, 0)

\* max_prefix_len that keeps the last token in the key
max_prefix_len_whole_input(r) ==
    LET input_len == Len(r.origin_input_ids) + Len(r.output_ids)
        l3 == IF r.return_logprob THEN Min(input_len, r.logprob_start_len)
              ELSE input_len
    IN  Max(l3, 0)

\* Req.adjust_max_prefix_ids: the length of the key
max_prefix_len(r) ==
    LET input_len == Len(r.origin_input_ids) + Len(r.output_ids)
        l1 == input_len - 1
        l2 == IF r.sampling_params.max_new_tokens > 0
              THEN Min(l1, input_len - 1) ELSE l1
        l3 == IF r.return_logprob THEN Min(l2, r.logprob_start_len) ELSE l2
    IN  Max(l3, 0)

\* Req.adjust_max_prefix_ids: the key it returns (it also refreshes fill_ids)
adjust_max_prefix_ids(r) ==
    SliceTo(r.origin_input_ids \o r.output_ids, max_prefix_len(r))

\* init_next_round_input that computes extend_input_len before the match
init_next_round_input_len_before_match(r, match) ==
    LET fill_ids == r.origin_input_ids \o r.output_ids
        r1 == [r EXCEPT !.fill_ids = fill_ids,
                        !.extend_input_len = Len(fill_ids) - Len(r.prefix_indices)]
    IN  IF match # NoneVal
        THEN [r1 EXCEPT !.prefix_indices = Val(match).prefix_indices,
                        !.last_node = Val(match).last_node]
        ELSE r1

\* Req.init_next_round_input; match is NoneVal without a tree cache, and
\* otherwise Some of what tree_cache.match_prefix returned for the key
init_next_round_input(r, match) ==
    LET fill_ids == r.origin_input_ids \o r.output_ids
        r1 == [r EXCEPT !.fill_ids = fill_ids]
        r2 == IF match # NoneVal
              THEN [r1 EXCEPT !.prefix_indices = Val(match).prefix_indices,
                              !.last_node = Val(match).last_node]
              ELSE r1
    IN  [r2 EXCEPT !.extend_input_len = Len(r2.fill_ids) - Len(r2.prefix_indices)]

----------------------------------------------------------------------------
(* The requests the model creates *)

SamplingParams(max_new_tokens, ignore_eos, stop_token_ids, stop_strs, stop_str_max_len) ==
    [max_new_tokens |-> max_new_tokens, ignore_eos |-> ignore_eos,
     stop_token_ids |-> stop_token_ids, stop_strs |-> stop_strs,
     stop_str_max_len |-> stop_str_max_len]

Tokenizer(eos_token_id, additional_stop_token_ids) ==
    [eos_token_id |-> eos_token_id,
     additional_stop_token_ids |-> additional_stop_token_ids]

\* The stop configurations requests are created with: stop token ids, eos
\* token ids, tokenizer, stop strings (with stop_str_max_len in tokens) and the
\* text decoded so far. A request with stop strings has a tokenizer.
StopConfigs ==
    { [stop |-> {}, eos |-> {}, tok |-> NoneVal,
       strs |-> << >>, max_len |-> 0, text |-> << >>],
      [stop |-> {1}, eos |-> {}, tok |-> NoneVal,
       strs |-> << >>, max_len |-> 0, text |-> << >>],
      [stop |-> {1}, eos |-> {0}, tok |-> NoneVal,
       strs |-> << >>, max_len |-> 0, text |-> << >>],
      [stop |-> {}, eos |-> {}, tok |-> Some(Tokenizer(1, {})),
       strs |-> << <<"a">> >>, max_len |-> 1, text |-> << >>],
      [stop |-> {}, eos |-> {}, tok |-> Some(Tokenizer(0, {1})),
       strs |-> << <<"x">>, <<"a", "b">> >>, max_len |-> 2, text |-> << >>],
      [stop |-> {}, eos |-> {}, tok |-> Some(Tokenizer(1, {})),
       strs |-> << <<"x">> >>, max_len |-> 1, text |-> <<"x">>] }

NoStopConfig ==
    [stop |-> {}, eos |-> {}, tok |-> NoneVal,
     strs |-> << >>, max_len |-> 0, text |-> << >>]

\* A prompt of ten tokens
TenTokens == <<0, 1, 0, 1, 0, 1, 0, 1, 0, 1>>

OriginInputIds == { <<0>>, <<1, 0>>, TenTokens }

NewReq(origin, max_new_tokens, ignore_eos, c, grammar, return_logprob, logprob_start_len) ==
    Req(origin,
        SamplingParams(max_new_tokens, ignore_eos, c.stop, c.strs, c.max_len),
        return_logprob, logprob_start_len, c.eos, c.tok, grammar, c.text)

\* Requests that differ in their stop configuration
StopReqs ==
    { NewReq(<<0>>, n, ie, c, g, FALSE, 0) :
        n \in 0..MaxNewTokens, ie \in BOOLEAN, c \in StopConfigs,
        g \in {"None", "active"} }

\* Requests that differ in their prompt and input-logprob configuration
PrefixReqs ==
    { NewReq(o, n, FALSE, NoStopConfig, "None", FALSE, 0) :
        o \in OriginInputIds, n \in {0, MaxNewTokens} }
    \cup
    { NewReq(o, n, FALSE, NoStopConfig, "None", TRUE, ls) :
        o \in OriginInputIds, n \in {0, MaxNewTokens},
        ls \in (0 - 1)..MaxLogprobStart }

Rids == {1}

----------------------------------------------------------------------------
(* The prefix cache, as far as a request sees it *)

\* What tree_cache.match_prefix(key) can return: the slot indices of a cached
\* prefix of the key, of any length up to the key's, and the node that holds it.
\* Slot i + 1 caches the i-th token of the path: node m is the node at depth m.
MatchResults(key) ==
    { [prefix_indices |-> [i \in 1..m |-> i + 1], last_node |-> m] :
        m \in 0..Len(key) }

----------------------------------------------------------------------------
(* The memory pools and the prefix cache of a batch *)

RECURSIVE SumSeq(_)
SumSeq(s) == IF s = << >> THEN 0 ELSE s[1] + SumSeq(Tail(s))

RECURSIVE Flatten(_)
Flatten(ss) == IF ss = << >> THEN << >> ELSE ss[1] \o Flatten(Tail(ss))

\* [0] * n and [None] * n
Repeat(v, n) == [i \in 1..n |-> v]

\* s[a:b] for 0 <= a
PySlice(s, a, b) == SubSeq(s, a + 1, Min(b, Len(s)))

\* [s[i] for i in keep_indices], indices counted from 0
Take(s, keep_indices) == [k \in 1..Len(keep_indices) |-> s[keep_indices[k] + 1]]

\* rows of the request-to-token table
ReqPoolSize == 3
\* KV slots of the allocator; slot 0 is the padding slot and is never handed out
KvSize == 4

\* ReqToTokenPool(size, max_context_len): every row free, the table zeroed
ReqToTokenPool(size, max_context_len) ==
    [free_slots |-> [i \in 1..size |-> i - 1],
     req_to_token |-> [row \in 0..(size - 1) |->
                          [col \in 0..(max_context_len - 1) |-> 0]]]

\* ReqToTokenPool.write((row, slice(start, start + len(values))), values)
req_to_token_pool_write(pool, row, start, values) ==
    [pool EXCEPT !.req_to_token[row] =
        [col \in DOMAIN @ |->
            IF col >= start /\ col < start + Len(values)
            THEN values[col - start + 1] ELSE @[col]]]

\* ReqToTokenPool.free(free_index)
req_to_token_pool_free(pool, free_index) ==
    [pool EXCEPT !.free_slots = Append(@, free_index)]

\* The allocator with page_size 1 over the slots first..last
TokenToKVPoolAllocator(first, last) ==
    [kind |-> "TokenToKVPoolAllocator", page_size |-> 1, swa_reserve |-> 0,
     free_pages |-> [i \in 1..(last - first + 1) |-> first + i - 1]]

\* The two-pool allocator: a token takes a slot of the full pool and a slot
\* of the sliding-window pool, which has swa_reserve slots fewer
SWATokenToKVPoolAllocator(first, last, swa_reserve) ==
    [TokenToKVPoolAllocator(first, last) EXCEPT
        !.kind = "SWATokenToKVPoolAllocator", !.swa_reserve = swa_reserve]

\* ScheduleBatch.is_hybrid, as init_new sets it
is_hybrid(allocator) == allocator.kind = "SWATokenToKVPoolAllocator"

available_size(allocator) == Len(allocator.free_pages) * allocator.page_size

full_available_size(allocator) == Len(allocator.free_pages)

swa_available_size(allocator) == Len(allocator.free_pages) - allocator.swa_reserve

\* The elements of a set of numbers in ascending order
RECURSIVE Ascending(_)
Ascending(S) ==
    IF S = {} THEN << >>
    ELSE LET least == CHOOSE x \in S : \A y \in S : x <= y
         IN  << least >> \o Ascending(S \ {least})

\* token_to_kv_pool_allocator.free(indices): the slots with page_size 1, the
\* pages of the slots (each once, ascending) with a larger page
allocator_free(allocator, indices) ==
    [allocator EXCEPT !.free_pages =
        IF allocator.page_size = 1 THEN @ \o indices
        ELSE @ \o Ascending({indices[k] \div allocator.page_size : k \in DOMAIN indices})]

\* The prefix cache holds one cached path: node d, at depth d, caches token
\* tokens[d] in slot slots[d] and is locked by lock_ref[d] running requests.
TreeCache(tokens, slots) ==
    [kind |-> "RadixCache", page_size |-> 1, tokens |-> tokens, slots |-> slots,
     lock_ref |-> [d \in 1..Len(tokens) |-> 0]]

\* ChunkCache holds no path: it matches nothing and evicts nothing
ChunkCache == [TreeCache(<< >>, << >>) EXCEPT !.kind = "ChunkCache"]

\* isinstance(tree_cache, ChunkCache); SWAChunkCache is a ChunkCache
is_chunk_cache(cache) == cache.kind \in {"ChunkCache", "SWAChunkCache"}

\* tree_cache.match_prefix(key): the longest cached prefix of the key
match_prefix(cache, key) ==
    LET m == CHOOSE n \in 0..Min(Len(key), Len(cache.tokens)) :
                 /\ \A i \in 1..n : key[i] = cache.tokens[i]
                 /\ \/ n = Min(Len(key), Len(cache.tokens))
                    \/ key[n + 1] # cache.tokens[n + 1]
    IN  [prefix_indices |-> SubSeq(cache.slots, 1, m), last_node |-> m]

\* tree_cache.inc_lock_ref(node) / dec_lock_ref(node): from the node to the root
inc_lock_ref(cache, node) ==
    [cache EXCEPT !.lock_ref = [d \in DOMAIN @ |-> IF d <= node THEN @[d] + 1 ELSE @[d]]]

dec_lock_ref(cache, node) ==
    [cache EXCEPT !.lock_ref = [d \in DOMAIN @ |-> IF d <= node THEN @[d] - 1 ELSE @[d]]]

\* The nodes tree_cache.evict(num_tokens) removes: unlocked leaves, deepest
\* first, until num_tokens slots are evicted or no unlocked leaf is left
evictable_size(cache) == Cardinality({d \in DOMAIN cache.lock_ref : cache.lock_ref[d] = 0})

\* whole pages are evicted
num_evicted(cache, num_tokens) ==
    Min(((num_tokens + cache.page_size - 1) \div cache.page_size) * cache.page_size,
        evictable_size(cache))

\* tree_cache.evict(num_tokens): the cache after it
evict(cache, num_tokens) ==
    LET keep == Len(cache.tokens) - num_evicted(cache, num_tokens)
    IN  [cache EXCEPT !.tokens = SubSeq(cache.tokens, 1, keep),
                      !.slots = SubSeq(cache.slots, 1, keep),
                      !.lock_ref = SubSeq(cache.lock_ref, 1, keep)]

\* tree_cache.evict(num_tokens): the slots it frees, the leaf's first
evicted_slots(cache, num_tokens) ==
    LET n == num_evicted(cache, num_tokens)
    IN  [k \in 1..n |-> cache.slots[Len(cache.tokens) - k + 1]]

\* One call of _evict_tree_cache_if_needed: what it was asked for, what was
\* free, and what it asked tree_cache.evict for (None: evict was not called)
EvictCall(num_tokens, allocator, asked, swa_asked) ==
    [num_tokens |-> num_tokens,
     available |-> Len(allocator.free_pages),
     swa_available |-> IF is_hybrid(allocator) THEN swa_available_size(allocator)
                       ELSE None,
     asked |-> asked, swa_asked |-> swa_asked]

\* tree_cache.evict(n) and its effect on the allocator
evict_and_free(allocator, cache, n, call) ==
    [allocator |-> allocator_free(allocator, evicted_slots(cache, n)),
     cache |-> evict(cache, n),
     evictions |-> << call >>]

\* ScheduleBatch._evict_tree_cache_if_needed
evict_tree_cache_if_needed(allocator, cache, num_tokens) ==
    IF cache.kind = "SWAChunkCache"
    THEN [allocator |-> allocator, cache |-> cache,
          evictions |-> << EvictCall(num_tokens, allocator, None, None) >>]
    ELSE IF is_hybrid(allocator)
    THEN IF \/ full_available_size(allocator) < num_tokens
            \/ swa_available_size(allocator) < num_tokens
         THEN LET full_num_tokens == Max(0, num_tokens - full_available_size(allocator))
                  swa_num_tokens == Max(0, num_tokens - swa_available_size(allocator))
              IN  evict_and_free(allocator, cache, Max(full_num_tokens, swa_num_tokens),
                      EvictCall(num_tokens, allocator, full_num_tokens, swa_num_tokens))
         ELSE [allocator |-> allocator, cache |-> cache,
               evictions |-> << EvictCall(num_tokens, allocator, None, None) >>]
    ELSE IF available_size(allocator) < num_tokens
    THEN evict_and_free(allocator, cache, num_tokens,
             EvictCall(num_tokens, allocator, num_tokens, None))
    ELSE [allocator |-> allocator, cache |-> cache,
          evictions |-> << EvictCall(num_tokens, allocator, None, None) >>]

\* ScheduleBatch._is_available_size_sufficient
is_available_size_sufficient(allocator, num_tokens) ==
    IF is_hybrid(allocator)
    THEN /\ full_available_size(allocator) >= num_tokens
         /\ swa_available_size(allocator) >= num_tokens
    ELSE available_size(allocator) >= num_tokens

\* ScheduleBatch.alloc_token_slots(num_tokens): out_cache_loc is NoneVal when
\* the allocator returned None and the RuntimeError is raised
alloc_token_slots(allocator, cache, num_tokens) ==
    LET e == evict_tree_cache_if_needed(allocator, cache, num_tokens)
    IN  IF ~is_available_size_sufficient(e.allocator, num_tokens)
        THEN [allocator |-> e.allocator, cache |-> e.cache,
              evictions |-> e.evictions, out_cache_loc |-> NoneVal]
        ELSE [allocator |-> [e.allocator EXCEPT !.free_pages =
                                SubSeq(@, num_tokens + 1, Len(@))],
              cache |-> e.cache,
              evictions |-> e.evictions,
              out_cache_loc |-> Some(SubSeq(e.allocator.free_pages, 1, num_tokens))]

\* allocator.alloc_extend(prefix_lens, seq_lens, last_loc, extend_num_tokens)
\* of an allocator with pages of page_size slots (page p holds the slots
\* p * page_size .. p * page_size + page_size - 1): each request fills the
\* page of its last slot and then takes new pages; NoneVal when the free
\* pages do not suffice
alloc_extend(allocator, prefix_lens, seq_lens, last_loc) ==
    LET ps == allocator.page_size
        bs == Len(seq_lens)
        ceil(n) == (n + ps - 1) \div ps
        pages == [i \in 1..bs |-> ceil(seq_lens[i]) - ceil(prefix_lens[i])]
        before == [i \in 1..bs |-> SumSeq(SubSeq(pages, 1, i - 1))]
        slot(i, pos) ==
            IF pos \div ps < ceil(prefix_lens[i])
            THEN last_loc[i] + (pos - (prefix_lens[i] - 1))
            ELSE allocator.free_pages[
                     before[i] + (pos \div ps) - ceil(prefix_lens[i]) + 1] * ps
                 + (pos % ps)
    IN  IF SumSeq(pages) > Len(allocator.free_pages)
        THEN [allocator |-> allocator, out_cache_loc |-> NoneVal]
        ELSE [allocator |-> [allocator EXCEPT !.free_pages =
                                SubSeq(@, SumSeq(pages) + 1, Len(@))],
              out_cache_loc |->
                  Some(Flatten([i \in 1..bs |->
                          [k \in 1..(seq_lens[i] - prefix_lens[i]) |->
                              slot(i, prefix_lens[i] + k - 1)]]))]

\* ScheduleBatch.alloc_paged_token_slots_extend; out_cache_loc is NoneVal
\* when it raised the RuntimeError
alloc_paged_token_slots_extend(allocator, cache, prefix_lens, seq_lens, last_loc, extend_num_tokens) ==
    LET num_tokens == extend_num_tokens + Len(seq_lens) * allocator.page_size
        e == evict_tree_cache_if_needed(allocator, cache, num_tokens)
        a == alloc_extend(e.allocator, prefix_lens, seq_lens, last_loc)
    IN  [allocator |-> a.allocator, cache |-> e.cache, evictions |-> e.evictions,
         out_cache_loc |-> a.out_cache_loc]

\* ScheduleBatch.alloc_paged_token_slots_decode, on allocator.alloc_decode(
\* seq_lens, last_loc): the slot after last_loc, in a new page when the last
\* one is full
alloc_paged_token_slots_decode(allocator, cache, seq_lens, last_loc) ==
    LET num_tokens == Len(seq_lens) * allocator.page_size
        e == evict_tree_cache_if_needed(allocator, cache, num_tokens)
        a == alloc_extend(e.allocator, [i \in 1..Len(seq_lens) |-> seq_lens[i] - 1],
                          seq_lens, last_loc)
    IN  [allocator |-> a.allocator, cache |-> e.cache, evictions |-> e.evictions,
         out_cache_loc |-> a.out_cache_loc]

\* alloc_req_slots that leaves the rows it hands out on the free list
alloc_req_slots_rows_stay_free(pool, num_reqs) ==
    IF num_reqs > Len(pool.free_slots)
    THEN [pool |-> pool, req_pool_indices |-> NoneVal, err |-> "RuntimeError"]
    ELSE [pool |-> pool,
          req_pool_indices |-> Some(SubSeq(pool.free_slots, 1, num_reqs)),
          err |-> "none"]

\* alloc_req_slots that hands out no row and returns
alloc_req_slots_returns_none(pool, num_reqs) ==
    [pool |-> pool, req_pool_indices |-> Some(<< >>), err |-> "none"]

\* ScheduleBatch.alloc_req_slots: req_to_token_pool.alloc(num_reqs) returns
\* None when fewer rows are free, and the RuntimeError is raised
alloc_req_slots(pool, num_reqs) ==
    IF num_reqs > Len(pool.free_slots)
    THEN [pool |-> pool, req_pool_indices |-> NoneVal, err |-> "RuntimeError"]
    ELSE [pool |-> [pool EXCEPT !.free_slots = SubSeq(@, num_reqs + 1, Len(@))],
          req_pool_indices |-> Some(SubSeq(pool.free_slots, 1, num_reqs)),
          err |-> "none"]

----------------------------------------------------------------------------
(* ScheduleBatch *)

\* ScheduleBatch(reqs=[...]): the dataclass defaults
ScheduleBatch(rids) ==
    [reqs |-> rids,
     forward_mode |-> "None",
     sampling_info |-> NoneVal,
     input_ids |-> NoneVal,
     req_pool_indices |-> NoneVal,
     seq_lens |-> NoneVal,
     out_cache_loc |-> NoneVal,
     output_ids |-> NoneVal,
     multimodal_inputs |-> NoneVal,
     seq_lens_sum |-> None,
     return_logprob |-> FALSE,
     top_logprobs_nums |-> NoneVal,
     token_ids_logprobs |-> NoneVal,
     prefix_lens |-> NoneVal,
     extend_lens |-> NoneVal,
     extend_num_tokens |-> None,
     extend_logprob_start_lens |-> NoneVal,
     extend_input_logprob_token_ids |-> NoneVal,
     has_stream |-> FALSE,
     has_grammar |-> FALSE,
     return_hidden_states |-> FALSE,
     chunked_req |-> None,
     enable_overlap |-> FALSE,
     is_encoder_decoder |-> FALSE,
     encoder_lens |-> NoneVal,
     encoder_out_cache_loc |-> NoneVal]

\* ScheduleBatch.init_new
init_new(rids, R) ==
    [ScheduleBatch(rids) EXCEPT
        !.return_logprob = \E i \in 1..Len(rids) : R[rids[i]].return_logprob,
        !.has_stream = \E i \in 1..Len(rids) : R[rids[i]].stream,
        !.has_grammar = \E i \in 1..Len(rids) : R[rids[i]].grammar # "None",
        !.return_hidden_states =
            \E i \in 1..Len(rids) : R[rids[i]].return_hidden_states]

is_empty(b) == Len(b.reqs) = 0

\* What a batch operation leaves behind: the objects it mutates and the
\* exception it raised ("none" when it returned)
Outcome(b, R, pool, allocator, cache, e) ==
    [batch |-> b, reqs |-> R, pool |-> pool, allocator |-> allocator,
     cache |-> cache, err |-> e, evictions |-> << >>]

Pos(s, x) == CHOOSE i \in 1..Len(s) : s[i] = x

InBatch(rid, b) == \E i \in 1..Len(b.reqs) : b.reqs[i] = rid

\* prepare_for_extend, lines 1164-1196: the loop over the requests, run for
\* the first n requests; the request after them has its row assigned when
\* the assertion on it fails
prepare_for_extend_loop(b, R, req_pool_indices, n) ==
    [rid \in DOMAIN R |->
        IF ~InBatch(rid, b) \/ Pos(b.reqs, rid) > n + 1 THEN R[rid]
        ELSE LET i == Pos(b.reqs, rid)
                 r == R[rid]
                 pre_len == Len(r.prefix_indices)
             IN  IF i = n + 1 THEN [r EXCEPT !.req_pool_idx = req_pool_indices[i]]
                 ELSE [r EXCEPT
                         !.req_pool_idx = req_pool_indices[i],
                         !.cached_tokens = @ + pre_len - r.already_computed,
                         !.already_computed = Len(r.fill_ids),
                         !.is_retracted = FALSE,
                         !.extend_logprob_start_len =
                             IF r.logprob_start_len >= pre_len
                             THEN Min(Min(r.logprob_start_len - pre_len,
                                          r.extend_input_len), seqlen(r) - 1)
                             ELSE 0]]

\* prepare_for_extend, lines 1168-1171: the cached prefix of each of the first
\* n requests is written to the head of its row
prepare_for_extend_prefix(b, R, pool, req_pool_indices, n) ==
    [pool EXCEPT !.req_to_token =
        [row \in DOMAIN pool.req_to_token |->
            IF \E i \in 1..n : req_pool_indices[i] = row
            THEN LET i == CHOOSE j \in 1..n : req_pool_indices[j] = row
                     prefix_indices == R[b.reqs[i]].prefix_indices
                 IN  [col \in DOMAIN pool.req_to_token[row] |->
                         IF col < Len(prefix_indices) THEN prefix_indices[col + 1]
                         ELSE pool.req_to_token[row][col]]
            ELSE pool.req_to_token[row]]]

\* prepare_for_extend, lines 1198-1234: the input-logprob token ids of a request
extend_input_logprob_token_ids(r) ==
    LET global_start_idx == Max(Len(r.prefix_indices), r.logprob_start_len)
        logprob_token_ids ==
            PySlice(r.origin_input_ids, global_start_idx + 1, Len(r.fill_ids) + 1)
    IN  logprob_token_ids \o
        Repeat(0, Max(0, r.extend_input_len - r.extend_logprob_start_len
                           - Len(logprob_token_ids)))

\* a write that gives every row the first segment of out_cache_loc
prepare_for_extend_write_first_segment(pool, req_pool_indices, prefix_lens, seq_lens, extend_lens, out_cache_loc) ==
    [pool EXCEPT !.req_to_token =
        [row \in DOMAIN pool.req_to_token |->
            IF \E i \in 1..Len(req_pool_indices) : req_pool_indices[i] = row
            THEN LET i == CHOOSE j \in 1..Len(req_pool_indices) :
                              req_pool_indices[j] = row
                 IN  [col \in DOMAIN pool.req_to_token[row] |->
                         IF col >= prefix_lens[i] /\ col < seq_lens[i]
                         THEN out_cache_loc[col - prefix_lens[i] + 1]
                         ELSE pool.req_to_token[row][col]]
            ELSE pool.req_to_token[row]]]

\* prepare_for_extend, lines 1287-1307: the new slots go to the rows
prepare_for_extend_write(pool, req_pool_indices, prefix_lens, seq_lens, extend_lens, out_cache_loc) ==
    [pool EXCEPT !.req_to_token =
        [row \in DOMAIN pool.req_to_token |->
            IF \E i \in 1..Len(req_pool_indices) : req_pool_indices[i] = row
            THEN LET i == CHOOSE j \in 1..Len(req_pool_indices) :
                              req_pool_indices[j] = row
                     pt == SumSeq(SubSeq(extend_lens, 1, i - 1))
                 IN  [col \in DOMAIN pool.req_to_token[row] |->
                         IF col >= prefix_lens[i] /\ col < seq_lens[i]
                         THEN out_cache_loc[pt + col - prefix_lens[i] + 1]
                         ELSE pool.req_to_token[row][col]]
            ELSE pool.req_to_token[row]]]

\* prepare_encoder_info_extend, lines 1050-1061: the encoder length of a
\* request; multimodal_inputs of a request with images is its
\* num_image_tokens
encoder_len(r) == IF r.multimodal_inputs = None THEN 0 ELSE r.multimodal_inputs

\* ScheduleBatch.prepare_encoder_info_extend(input_ids, seq_lens): the
\* encoder part is taken out of the lengths, the input ids and the new slots
prepare_encoder_info_extend(b, R, input_ids, seq_lens) ==
    LET bs == Len(b.reqs)
        req(i) == R[b.reqs[i]]
        encoder_lens == [i \in 1..bs |-> encoder_len(req(i))]
        whole(i) == Len(req(i).prefix_indices) < encoder_lens[i]
        pt(i) == SumSeq([j \in 1..(i - 1) |-> req(j).extend_input_len])
        out_cache_loc == Val(b.out_cache_loc)
        decoder_out_cache_loc ==
            [i \in 1..bs |->
                PySlice(out_cache_loc,
                        pt(i) + (IF whole(i) THEN encoder_lens[i] ELSE 0),
                        pt(i) + req(i).extend_input_len)]
        encoder_out_cache_loc ==
            [i \in 1..bs |->
                IF whole(i) THEN PySlice(out_cache_loc, pt(i), pt(i) + encoder_lens[i])
                ELSE << >>]
        extend_num_tokens ==
            b.extend_num_tokens
                - SumSeq([i \in 1..bs |-> IF whole(i) THEN encoder_lens[i] ELSE 0])
        b1 == [b EXCEPT
                 !.encoder_lens = Some(encoder_lens),
                 !.input_ids =
                     Some(Flatten([i \in 1..bs |->
                             IF whole(i)
                             THEN PySlice(input_ids[i], encoder_lens[i], Len(input_ids[i]))
                             ELSE input_ids[i]])),
                 !.seq_lens = Some([i \in 1..bs |-> seq_lens[i] - encoder_lens[i]]),
                 !.extend_lens =
                     Some([i \in 1..bs |->
                             IF whole(i) THEN Val(@)[i] - encoder_lens[i] ELSE Val(@)[i]]),
                 !.prefix_lens =
                     Some([i \in 1..bs |->
                             IF whole(i) THEN Val(@)[i] ELSE Val(@)[i] - encoder_lens[i]]),
                 !.extend_num_tokens = extend_num_tokens,
                 !.out_cache_loc = Some(Flatten(decoder_out_cache_loc)),
                 !.encoder_out_cache_loc = Some(Flatten(encoder_out_cache_loc))]
    IN  [batch |-> b1,
         err |-> IF \/ \E i \in 1..bs : whole(i) /\ Len(req(i).prefix_indices) # 0
                    \/ Len(Flatten(decoder_out_cache_loc)) # extend_num_tokens
                 THEN "AssertionError" ELSE "none"]

\* ScheduleBatch.prepare_for_idle
prepare_for_idle(b) ==
    [b EXCEPT !.forward_mode = "IDLE",
              !.input_ids = Some(<< >>),
              !.seq_lens = Some(<< >>),
              !.out_cache_loc = Some(<< >>),
              !.req_pool_indices = Some(<< >>),
              !.seq_lens_sum = 0,
              !.extend_num_tokens = 0,
              !.sampling_info = Some(b.reqs)]

\* ScheduleBatch.prepare_for_extend (page_size 1)
prepare_for_extend(b0, R, pool, allocator, cache) ==
    LET b == [b0 EXCEPT !.forward_mode = "EXTEND"]
        bs == Len(b.reqs)
    IN
    IF alloc_req_slots(pool, bs).err # "none"
    THEN Outcome(b, R, pool, allocator, cache, alloc_req_slots(pool, bs).err)
    ELSE
    LET req_pool_indices == Val(alloc_req_slots(pool, bs).req_pool_indices)
        pool1 == alloc_req_slots(pool, bs).pool
        input_ids == [i \in 1..bs |->
                         PySlice(R[b.reqs[i]].fill_ids,
                                 Len(R[b.reqs[i]].prefix_indices),
                                 Len(R[b.reqs[i]].fill_ids))]
        extend_num_tokens == SumSeq([i \in 1..bs |-> Len(input_ids[i])])
        seq_lens == [i \in 1..bs |-> Len(R[b.reqs[i]].fill_ids)]
        prefix_lens == [i \in 1..bs |-> Len(R[b.reqs[i]].prefix_indices)]
        extend_lens == [i \in 1..bs |-> R[b.reqs[i]].extend_input_len]
        failing == {i \in 1..bs : seq_lens[i] - prefix_lens[i] # extend_lens[i]}
    IN
    IF failing # {}
    THEN LET n == (CHOOSE i \in failing : \A j \in failing : i <= j) - 1
         IN  Outcome(b, prepare_for_extend_loop(b, R, req_pool_indices, n),
                     prepare_for_extend_prefix(b, R, pool1, req_pool_indices, n),
                     allocator, cache, "AssertionError")
    ELSE
    LET R1 == prepare_for_extend_loop(b, R, req_pool_indices, bs)
        pool2 == prepare_for_extend_prefix(b, R, pool1, req_pool_indices, bs)
        a == alloc_token_slots(allocator, cache, extend_num_tokens)
    IN
    IF a.out_cache_loc = NoneVal
    THEN [Outcome(b, R1, pool2, a.allocator, a.cache, "RuntimeError")
             EXCEPT !.evictions = a.evictions]
    ELSE
    LET out_cache_loc == Val(a.out_cache_loc)
        b1 == [b EXCEPT
                 !.input_ids = Some(Flatten(input_ids)),
                 !.req_pool_indices = Some(req_pool_indices),
                 !.seq_lens = Some(seq_lens),
                 !.out_cache_loc = Some(out_cache_loc),
                 !.multimodal_inputs =
                     Some([i \in 1..bs |-> R1[b.reqs[i]].multimodal_inputs]),
                 !.seq_lens_sum = SumSeq(seq_lens),
                 !.top_logprobs_nums =
                     IF b.return_logprob
                     THEN Some([i \in 1..bs |-> R1[b.reqs[i]].top_logprobs_num])
                     ELSE @,
                 !.token_ids_logprobs =
                     IF b.return_logprob
                     THEN Some([i \in 1..bs |-> R1[b.reqs[i]].token_ids_logprob])
                     ELSE @,
                 !.extend_logprob_start_lens =
                     Some([i \in 1..bs |-> R1[b.reqs[i]].extend_logprob_start_len]),
                 !.extend_num_tokens = extend_num_tokens,
                 !.prefix_lens = Some(prefix_lens),
                 !.extend_lens = Some(extend_lens),
                 !.extend_input_logprob_token_ids =
                     IF b.return_logprob
                     THEN Some(Flatten([i \in 1..bs |->
                              extend_input_logprob_token_ids(R1[b.reqs[i]])]))
                     ELSE NoneVal,
                 !.sampling_info = Some(b.reqs)]
        e == IF b.is_encoder_decoder
             THEN prepare_encoder_info_extend(b1, R1, input_ids, seq_lens)
             ELSE [batch |-> b1, err |-> "none"]
    IN  [Outcome(e.batch, R1,
                 prepare_for_extend_write(pool2, req_pool_indices, prefix_lens,
                                          seq_lens, extend_lens, out_cache_loc),
                 a.allocator, a.cache, e.err)
            EXCEPT !.evictions = a.evictions]

\* locs that point at the last slot written
decode_locs_last_written(seq_lens) == [i \in 1..Len(seq_lens) |-> seq_lens[i] - 1]

\* prepare_for_decode: locs = self.seq_lens.clone()
decode_locs(seq_lens) == seq_lens

\* seq_lens that stay as they are
\* prepare_for_decode that adds in place also in the overlap mode
seq_lens_in_place_always(b) == TRUE

\* prepare_for_decode, lines 1558-1563: seq_lens.add_(1) changes the tensor
\* itself; seq_lens = seq_lens + 1 of the overlap mode makes a new one
seq_lens_in_place(b) == ~b.enable_overlap

decode_seq_lens_unchanged(seq_lens) == seq_lens

\* prepare_for_decode: self.seq_lens + 1
decode_seq_lens(seq_lens) == [i \in 1..Len(seq_lens) |-> seq_lens[i] + 1]

\* ScheduleBatch.prepare_for_decode (no penalizer, page_size 1)
prepare_for_decode(b0, R, pool, allocator, cache, spec_algorithm) ==
    IF spec_algorithm = "EAGLE"
    THEN Outcome([b0 EXCEPT !.forward_mode = "DECODE"], R, pool, allocator, cache, "none")
    ELSE
    LET bs == Len(b0.reqs)
        locs == IF b0.is_encoder_decoder
                THEN [i \in 1..bs |-> Val(b0.encoder_lens)[i] + Val(b0.seq_lens)[i]]
                ELSE decode_locs(Val(b0.seq_lens))
        b == [b0 EXCEPT !.forward_mode = "DECODE",
                        !.input_ids = b0.output_ids,
                        !.output_ids = NoneVal,
                        !.seq_lens = Some(decode_seq_lens(Val(b0.seq_lens))),
                        !.seq_lens_sum = @ + bs]
        a == alloc_token_slots(allocator, cache, bs)
    IN
    IF a.out_cache_loc = NoneVal
    THEN [Outcome(b, R, pool, a.allocator, a.cache, "RuntimeError")
             EXCEPT !.evictions = a.evictions]
    ELSE
    LET out_cache_loc == Val(a.out_cache_loc)
        req_pool_indices == Val(b.req_pool_indices)
    IN  [Outcome([b EXCEPT !.out_cache_loc = Some(out_cache_loc)], R,
                 [pool EXCEPT !.req_to_token =
                     [row \in DOMAIN pool.req_to_token |->
                         IF \E i \in 1..bs : req_pool_indices[i] = row
                         THEN LET i == CHOOSE j \in 1..bs : req_pool_indices[j] = row
                              IN  [pool.req_to_token[row] EXCEPT ![locs[i]] = out_cache_loc[i]]
                         ELSE pool.req_to_token[row]]],
                 a.allocator, a.cache, "none")
            EXCEPT !.evictions = a.evictions]

\* the indices of the unfinished requests, the chunked request among them
unfinished_indices_keeps_chunked(b, R, chunked_req_to_exclude) ==
    SelectSeq([i \in 1..Len(b.reqs) |-> i - 1],
              LAMBDA i : ~finished(R[b.reqs[i + 1]]))

\* filter_batch, lines 1598-1603: the indices it keeps when it is given none
unfinished_indices(b, R, chunked_req_to_exclude) ==
    SelectSeq([i \in 1..Len(b.reqs) |-> i - 1],
              LAMBDA i : /\ ~finished(R[b.reqs[i + 1]])
                         /\ b.reqs[i + 1] \notin chunked_req_to_exclude)

\* filter_batch that keeps the first len(keep_indices) entries of
\* req_pool_indices and of seq_lens instead of the selected ones
filter_batch_project_leading(b, keep_indices, R) ==
    LET new_reqs == Take(b.reqs, keep_indices)
        seq_lens == PySlice(Val(b.seq_lens), 0, Len(keep_indices))
        return_logprob == \E i \in 1..Len(new_reqs) : R[new_reqs[i]].return_logprob
    IN  [b EXCEPT
           !.reqs = new_reqs,
           !.multimodal_inputs =
               IF @ # NoneVal THEN Some(Take(Val(@), keep_indices)) ELSE @,
           !.req_pool_indices = Some(PySlice(Val(@), 0, Len(keep_indices))),
           !.seq_lens = Some(seq_lens),
           !.out_cache_loc = NoneVal,
           !.seq_lens_sum = SumSeq(seq_lens),
           !.output_ids = Some(Take(Val(@), keep_indices)),
           !.return_logprob = return_logprob,
           !.top_logprobs_nums =
               IF return_logprob THEN Some(Take(Val(@), keep_indices)) ELSE NoneVal,
           !.token_ids_logprobs =
               IF return_logprob THEN Some(Take(Val(@), keep_indices)) ELSE NoneVal,
           !.has_stream = \E i \in 1..Len(new_reqs) : R[new_reqs[i]].stream,
           !.has_grammar = \E i \in 1..Len(new_reqs) : R[new_reqs[i]].grammar # "None",
           !.sampling_info = Some(Take(Val(@), keep_indices))]

\* filter_batch, lines 1614-1643: every per-request field is projected on
\* keep_indices
filter_batch_project(b, keep_indices, R) ==
    LET new_reqs == Take(b.reqs, keep_indices)
        seq_lens == Take(Val(b.seq_lens), keep_indices)
        return_logprob == \E i \in 1..Len(new_reqs) : R[new_reqs[i]].return_logprob
    IN  [b EXCEPT
           !.encoder_lens =
               IF b.is_encoder_decoder THEN Some(Take(Val(@), keep_indices)) ELSE @,
           !.reqs = new_reqs,
           !.multimodal_inputs =
               IF @ # NoneVal THEN Some(Take(Val(@), keep_indices)) ELSE @,
           !.req_pool_indices = Some(Take(Val(@), keep_indices)),
           !.seq_lens = Some(seq_lens),
           !.out_cache_loc = NoneVal,
           !.seq_lens_sum = SumSeq(seq_lens),
           !.output_ids = Some(Take(Val(@), keep_indices)),
           !.return_logprob = return_logprob,
           !.top_logprobs_nums =
               IF return_logprob THEN Some(Take(Val(@), keep_indices)) ELSE NoneVal,
           !.token_ids_logprobs =
               IF return_logprob THEN Some(Take(Val(@), keep_indices)) ELSE NoneVal,
           !.has_stream = \E i \in 1..Len(new_reqs) : R[new_reqs[i]].stream,
           !.has_grammar = \E i \in 1..Len(new_reqs) : R[new_reqs[i]].grammar # "None",
           !.sampling_info = Some(Take(Val(@), keep_indices))]

\* filter_batch without the return on len(keep_indices) == len(self.reqs)
filter_batch_without_early_return(b, keep_indices_arg, chunked_req_to_exclude, R) ==
    LET keep_indices == IF keep_indices_arg = NoneVal
                        THEN unfinished_indices(b, R, chunked_req_to_exclude)
                        ELSE Val(keep_indices_arg)
    IN  IF Len(keep_indices) = 0 THEN [b EXCEPT !.reqs = << >>]
        ELSE filter_batch_project(b, keep_indices, R)

\* ScheduleBatch.filter_batch(chunked_req_to_exclude, keep_indices);
\* keep_indices_arg is NoneVal when the caller gives none
filter_batch(b, keep_indices_arg, chunked_req_to_exclude, R) ==
    LET keep_indices == IF keep_indices_arg = NoneVal
                        THEN unfinished_indices(b, R, chunked_req_to_exclude)
                        ELSE Val(keep_indices_arg)
    IN  IF Len(keep_indices) = 0 THEN [b EXCEPT !.reqs = << >>]
        ELSE IF Len(keep_indices) = Len(b.reqs) THEN b
        ELSE filter_batch_project(b, keep_indices, R)

\* merge_batch that pads neither side's logprob lists
merge_logprobs_unpadded(self, other, mine, theirs, pad) ==
    IF self.return_logprob /\ other.return_logprob
    THEN Some(Val(mine) \o Val(theirs))
    ELSE IF self.return_logprob THEN mine
    ELSE IF other.return_logprob THEN theirs
    ELSE mine

\* a merge that pads behind the other batch's values
merge_logprobs_padded_behind(self, other, mine, theirs, pad) ==
    IF self.return_logprob /\ other.return_logprob
    THEN Some(Val(mine) \o Val(theirs))
    ELSE IF self.return_logprob
    THEN Some(Val(mine) \o Repeat(pad, Len(other.reqs)))
    ELSE IF other.return_logprob
    THEN Some(Val(theirs) \o Repeat(pad, Len(self.reqs)))
    ELSE mine

\* merge_batch, lines 1663-1671: one of the two logprob lists after the merge
merge_logprobs(self, other, mine, theirs, pad) ==
    IF self.return_logprob /\ other.return_logprob
    THEN Some(Val(mine) \o Val(theirs))
    ELSE IF self.return_logprob
    THEN Some(Val(mine) \o Repeat(pad, Len(other.reqs)))
    ELSE IF other.return_logprob
    THEN Some(Repeat(pad, Len(self.reqs)) \o Val(theirs))
    ELSE mine

\* ScheduleBatch.merge_batch(other)
merge_batch(self, other) ==
    [self EXCEPT
        !.sampling_info = Some(Val(@) \o Val(other.sampling_info)),
        !.encoder_lens =
            IF self.is_encoder_decoder
            THEN Some(Val(@) \o Val(other.encoder_lens)) ELSE @,
        !.req_pool_indices = Some(Val(@) \o Val(other.req_pool_indices)),
        !.seq_lens = Some(Val(@) \o Val(other.seq_lens)),
        !.out_cache_loc = NoneVal,
        !.seq_lens_sum = @ + other.seq_lens_sum,
        !.output_ids =
            IF @ # NoneVal THEN Some(Val(@) \o Val(other.output_ids)) ELSE @,
        !.top_logprobs_nums =
            merge_logprobs(self, other, @, other.top_logprobs_nums, 0),
        !.token_ids_logprobs =
            merge_logprobs(self, other, @, other.token_ids_logprobs, NoneVal),
        !.reqs = @ \o other.reqs,
        !.multimodal_inputs =
            IF @ # NoneVal THEN Some(Val(@) \o Val(other.multimodal_inputs)) ELSE @,
        !.return_logprob = @ \/ other.return_logprob,
        !.has_stream = @ \/ other.has_stream,
        !.has_grammar = @ \/ other.has_grammar,
        !.return_hidden_states = @ \/ other.return_hidden_states]

\* mix_with_running with delta = -1 whatever enable_overlap is
mix_with_running_delta_minus_one(self, running, R) ==
    LET running_bs == Len(running.reqs)
        merged == merge_batch([self EXCEPT !.forward_mode = "MIXED"], running)
    IN  [batch |->
            [merged EXCEPT
                !.input_ids = Some(Val(self.input_ids) \o Val(running.input_ids)),
                !.out_cache_loc =
                    Some(Val(self.out_cache_loc) \o Val(running.out_cache_loc)),
                !.prefix_lens =
                    Some(Val(@) \o [i \in 1..running_bs |->
                                      Len(R[running.reqs[i]].origin_input_ids)
                                      + Len(R[running.reqs[i]].output_ids) - 1]),
                !.extend_lens = Some(Val(@) \o Repeat(1, running_bs)),
                !.extend_num_tokens = @ + running_bs,
                !.extend_logprob_start_lens = Some(Val(@) \o Repeat(0, running_bs))],
         reqs |->
            [rid \in DOMAIN R |->
                IF InBatch(rid, running)
                THEN [R[rid] EXCEPT !.fill_ids = R[rid].origin_input_ids \o R[rid].output_ids,
                                    !.extend_input_len = 1]
                ELSE R[rid]]]

\* ScheduleBatch.mix_with_running(running_batch): the batch and the requests
\* afterwards
mix_with_running(self, running, R) ==
    LET running_bs == Len(running.reqs)
        merged == merge_batch([self EXCEPT !.forward_mode = "MIXED"], running)
        delta == IF self.enable_overlap THEN 0 ELSE 0 - 1
    IN  [batch |->
            [merged EXCEPT
                !.input_ids = Some(Val(self.input_ids) \o Val(running.input_ids)),
                !.out_cache_loc =
                    Some(Val(self.out_cache_loc) \o Val(running.out_cache_loc)),
                !.prefix_lens =
                    Some(Val(@) \o [i \in 1..running_bs |->
                                      Len(R[running.reqs[i]].origin_input_ids)
                                      + Len(R[running.reqs[i]].output_ids) + delta]),
                !.extend_lens = Some(Val(@) \o Repeat(1, running_bs)),
                !.extend_num_tokens = @ + running_bs,
                !.extend_logprob_start_lens = Some(Val(@) \o Repeat(0, running_bs))],
         reqs |->
            [rid \in DOMAIN R |->
                IF InBatch(rid, running)
                THEN [R[rid] EXCEPT !.fill_ids = R[rid].origin_input_ids \o R[rid].output_ids,
                                    !.extend_input_len = 1]
                ELSE R[rid]]]

\* ModelWorkerBatch: the fields of the batch that go to the worker
ModelWorkerBatch(b, batch_id, extend_seq_lens, extend_prefix_lens, extend_logprob_start_lens) ==
    [bid |-> batch_id,
     forward_mode |-> b.forward_mode,
     input_ids |-> b.input_ids,
     req_pool_indices |-> b.req_pool_indices,
     seq_lens |-> b.seq_lens,
     out_cache_loc |-> b.out_cache_loc,
     seq_lens_sum |-> b.seq_lens_sum,
     return_logprob |-> b.return_logprob,
     top_logprobs_nums |-> b.top_logprobs_nums,
     token_ids_logprobs |-> b.token_ids_logprobs,
     extend_num_tokens |-> b.extend_num_tokens,
     extend_seq_lens |-> extend_seq_lens,
     extend_prefix_lens |-> extend_prefix_lens,
     extend_logprob_start_lens |-> extend_logprob_start_lens,
     multimodal_inputs |-> b.multimodal_inputs,
     sampling_info |-> b.sampling_info,
     extend_input_logprob_token_ids |-> b.extend_input_logprob_token_ids]

\* get_model_worker_batch that hands out the counter without advancing it
get_model_worker_batch_stale_bid(b, counter) ==
    ModelWorkerBatch(b, counter, b.extend_lens, b.prefix_lens, b.extend_logprob_start_lens)

\* ScheduleBatch.get_model_worker_batch with the module's counter bid: the
\* object returned; its bid is the new value of the counter
get_model_worker_batch(b, counter) ==
    IF b.forward_mode \in {"DECODE", "IDLE"}
    THEN ModelWorkerBatch(b, counter + 1, NoneVal, NoneVal, NoneVal)
    ELSE ModelWorkerBatch(b, counter + 1, b.extend_lens, b.prefix_lens,
                          b.extend_logprob_start_lens)

\* The scheduler releases a finished request: the slots its row holds past
\* the cached prefix go back to the allocator, its row is freed and the lock
\* on its prefix node is dropped.
cache_finished_req(r, st) ==
    LET kv_indices == [k \in 1..(seqlen(r) - 1) |->
                          st.pool.req_to_token[r.req_pool_idx][k - 1]]
    IN  [pool |-> req_to_token_pool_free(st.pool, r.req_pool_idx),
         allocator |-> allocator_free(st.allocator,
                           SubSeq(kv_indices, Max(r.last_node, 0) + 1, Len(kv_indices))),
         cache |-> dec_lock_ref(st.cache, r.last_node)]

RECURSIVE cache_finished_reqs(_, _, _)
cache_finished_reqs(rids, R, st) ==
    IF rids = << >> THEN st
    ELSE cache_finished_reqs(Tail(rids), R,
             IF finished(R[rids[1]]) THEN cache_finished_req(R[rids[1]], st) ELSE st)

\* The scheduler's result processing: each request of the batch gets its
\* sampled token and runs check_finished
process_batch_result(b, R, next_token_ids) ==
    [rid \in DOMAIN R |->
        IF InBatch(rid, b) /\ R[rid].is_chunked > 0
        THEN [R[rid] EXCEPT !.is_chunked = @ - 1]
        ELSE IF InBatch(rid, b)
        THEN check_finished([R[rid] EXCEPT !.output_ids =
                                Append(@, next_token_ids[Pos(b.reqs, rid)])],
                            None, None)
        ELSE R[rid]]

----------------------------------------------------------------------------
(* Retraction of decoding requests *)

\* global_config.retract_decode_steps, scaled down
RetractDecodeSteps == 2

\* The fields of ServerArgs that retract_decode reads
ServerArgs(speculative_algorithm, disaggregation_mode) ==
    [speculative_algorithm |-> speculative_algorithm,
     speculative_eagle_topk |-> 1,
     speculative_num_steps |-> 1,
     speculative_num_draft_tokens |-> 2,
     page_size |-> 1,
     chunked_prefill_size |-> None,
     disaggregation_mode |-> disaggregation_mode]

\* ScheduleBatch.new_page_count_next_decode, page_size 1
new_page_count_next_decode(b) == Len(b.reqs)

\* ScheduleBatch.check_decode_mem: the state after it and what it returns
check_decode_mem(b, allocator, cache, buf_multiplier) ==
    LET num_tokens == new_page_count_next_decode(b) * buf_multiplier * allocator.page_size
        e == evict_tree_cache_if_needed(allocator, cache, num_tokens)
    IN  [allocator |-> e.allocator, cache |-> e.cache, evictions |-> e.evictions,
         result |-> is_available_size_sufficient(e.allocator, num_tokens)]

\* The permutations of 0 .. n - 1
Permutations0(n) ==
    {s \in [1..n -> 0..(n - 1)] : \A i, j \in 1..n : i # j => s[i] # s[j]}

\* retract_decode, lines 1386-1389: the sort key of position i
retract_key(b, R, i) ==
    << Len(R[b.reqs[i + 1]].output_ids), 0 - Len(R[b.reqs[i + 1]].origin_input_ids) >>

\* the order of Python tuples
key_less(k1, k2) == k1[1] < k2[1] \/ (k1[1] = k2[1] /\ k1[2] < k2[2])

\* list.sort(key, reverse=True) is stable: equal keys keep their order
sort_reverse(b, R) ==
    CHOOSE s \in Permutations0(Len(b.reqs)) :
        \A i, j \in 1..Len(b.reqs) : i < j =>
            \/ key_less(retract_key(b, R, s[j]), retract_key(b, R, s[i]))
            \/ /\ retract_key(b, R, s[j]) = retract_key(b, R, s[i])
               /\ s[i] < s[j]

\* list.sort(key) without reverse
sort_forward(b, R) ==
    CHOOSE s \in Permutations0(Len(b.reqs)) :
        \A i, j \in 1..Len(b.reqs) : i < j =>
            \/ key_less(retract_key(b, R, s[i]), retract_key(b, R, s[j]))
            \/ /\ retract_key(b, R, s[j]) = retract_key(b, R, s[i])
               /\ s[i] < s[j]

\* retract_decode that never sorts
sorted_indices_never_sorted(b, R, server_args) == [i \in 1..Len(b.reqs) |-> i - 1]

\* retract_decode that sorts whatever the speculative algorithm
sorted_indices_always_sorted(b, R, server_args) == sort_reverse(b, R)

\* retract_decode that sorts in ascending order
sorted_indices_ascending(b, R, server_args) ==
    IF server_args.speculative_algorithm = "None"
    THEN sort_forward(b, R)
    ELSE [i \in 1..Len(b.reqs) |-> i - 1]

\* retract_decode, lines 1377-1391: the order in which requests are popped,
\* from the end
sorted_indices(b, R, server_args) ==
    IF server_args.speculative_algorithm = "None"
    THEN sort_reverse(b, R)
    ELSE [i \in 1..Len(b.reqs) |-> i - 1]

\* get_required_tokens without the headroom for speculative decoding
get_required_tokens_no_headroom(server_args, num_reqs) ==
    num_reqs * RetractDecodeSteps

\* retract_decode.get_required_tokens
get_required_tokens(server_args, num_reqs) ==
    LET headroom_for_spec_decode ==
            IF server_args.speculative_algorithm # "None"
            THEN num_reqs * server_args.speculative_eagle_topk
                          * server_args.speculative_num_steps
                 + num_reqs * server_args.speculative_num_draft_tokens
            ELSE 0
    IN  num_reqs * RetractDecodeSteps + headroom_for_spec_decode

\* retract_decode._get_available_size
get_available_size(allocator) ==
    IF is_hybrid(allocator)
    THEN Min(full_available_size(allocator), swa_available_size(allocator))
    ELSE available_size(allocator)

\* a loop without the assertion on the last request
space_for_one_request_unchecked(allocator) == TRUE

\* retract_decode, lines 1424-1437: the assertion on the last request
space_for_one_request(allocator) ==
    IF is_hybrid(allocator)
    THEN full_available_size(allocator) > 0 /\ swa_available_size(allocator) > 0
    ELSE available_size(allocator) > 0

\* Req.offload_kv_cache: the CPU copy of the slots row[: seqlen - 1]
offload_kv_cache(r, pool) ==
    [r EXCEPT !.kv_cache_cpu =
        Some([k \in 1..(seqlen(r) - 1) |-> pool.req_to_token[r.req_pool_idx][k - 1]])]

\* a slice that leaves out its last entry
row_slice_short(pool, row, a, b) ==
    [k \in 1..Max(0, b - 1 - a) |-> pool.req_to_token[row][a + k - 1]]

\* req_to_token[row, a : b]
row_slice(pool, row, a, b) ==
    [k \in 1..Max(0, b - a) |-> pool.req_to_token[row][a + k - 1]]

\* a loop that starts with first_iter = False
first_iter_false == FALSE

\* retract_decode, line 1417
first_iter_init == TRUE

\* a loop that does not stop at the last request
is_last_request_never(sorted) == FALSE

\* retract_decode, line 1422
is_last_request(sorted) == Len(sorted) = 1

\* the lock released after reset_for_retract cleared last_node
release_last_node_after_reset(cache, r) == dec_lock_ref(cache, reset_for_retract(r).last_node)

\* retract_decode, lines 1469-1472: tree_cache.dec_lock_ref(req.last_node)
release_last_node(cache, r) == dec_lock_ref(cache, r.last_node)

\* The state of the loop of retract_decode before its first test
RetractState(b, R, pool, allocator, cache, server_args) ==
    [sorted_indices |-> sorted_indices(b, R, server_args),
     retracted_reqs |-> << >>,
     reqs |-> R, pool |-> pool, allocator |-> allocator, cache |-> cache,
     first_iter |-> first_iter_init,
     evictions |-> << >>,
     tests |-> << >>,
     offloads |-> << >>,
     frees |-> << >>,
     err |-> "none"]

\* One test of the loop condition, lines 1418-1421
LoopTest(st, server_args) ==
    [num_reqs |-> Len(st.sorted_indices),
     available |-> get_available_size(st.allocator),
     required |-> get_required_tokens(server_args, Len(st.sorted_indices)),
     first_iter |-> st.first_iter]

\* What req.offload_kv_cache copies to the host for request rid, and the
\* row and KV slots that are free at the time of the copy
Offload(rid, req, pool, allocator) ==
    [rid |-> rid,
     row |-> req.req_pool_idx,
     token_indices |-> Val(req.kv_cache_cpu),
     free_slots |-> pool.free_slots,
     free_pages |-> allocator.free_pages]

\* a retraction that frees the row from its first column
last_uncached_pos_row_start(req, server_args) == 0

\* retract_decode, lines 1459-1461
last_uncached_pos(req, server_args) ==
    (Len(req.prefix_indices) \div server_args.page_size) * server_args.page_size

\* What the retraction of one request frees: token_indices, which it hands
\* to token_to_kv_pool_allocator.free, out of the row of the request, and the
\* slots the eviction that follows takes from the cache
Free(rid, req, pool, token_indices, cache, cache_after) ==
    [rid |-> rid,
     prefix_len |-> Len(req.prefix_indices),
     row |-> pool.req_to_token[req.req_pool_idx],
     token_indices |-> token_indices,
     evicted |-> SubSeq(cache.slots, Len(cache_after.slots) + 1, Len(cache.slots))]

\* one retraction that copies the KV cache to the host after the slots and
\* the row are freed
retract_one_offload_after_free(b, server_args, st) ==
    LET idx == Last(st.sorted_indices)
        popped == SubSeq(st.sorted_indices, 1, Len(st.sorted_indices) - 1)
        rid == b.reqs[idx + 1]
        seq_len == Val(b.seq_lens)[idx + 1]
        r0 == st.reqs[rid]
        req == r0
        token_indices == IF is_chunk_cache(st.cache)
                         THEN row_slice(st.pool, req.req_pool_idx, 0, seq_len)
                         ELSE row_slice(st.pool, req.req_pool_idx,
                                        last_uncached_pos(req, server_args), seq_len)
        allocator1 == allocator_free(st.allocator, token_indices)
        pool1 == req_to_token_pool_free(st.pool, req.req_pool_idx)
        e == IF is_chunk_cache(st.cache)
             THEN [allocator |-> allocator1, cache |-> st.cache, evictions |-> << >>]
             ELSE evict_tree_cache_if_needed(allocator1,
                      release_last_node(st.cache, req),
                      Len(popped) * RetractDecodeSteps)
    IN  [st EXCEPT !.sorted_indices = popped,
                   !.retracted_reqs = Append(@, rid),
                   !.first_iter = FALSE,
                   !.reqs = [@ EXCEPT ![rid] =
                                IF server_args.disaggregation_mode = "decode"
                                THEN reset_for_retract(offload_kv_cache(req, pool1))
                                ELSE reset_for_retract(req)],
                   !.pool = pool1,
                   !.allocator = e.allocator,
                   !.cache = e.cache,
                   !.evictions = @ \o e.evictions,
                   !.offloads =
                       IF server_args.disaggregation_mode = "decode"
                       THEN Append(@, Offload(rid, offload_kv_cache(req, pool1),
                                              pool1, e.allocator))
                       ELSE @]

\* retract_decode, lines 1440-1478: one request is retracted
retract_one(b, server_args, st) ==
    LET idx == Last(st.sorted_indices)
        popped == SubSeq(st.sorted_indices, 1, Len(st.sorted_indices) - 1)
        rid == b.reqs[idx + 1]
        seq_len == Val(b.seq_lens)[idx + 1]
        r0 == st.reqs[rid]
        req == IF server_args.disaggregation_mode = "decode"
               THEN offload_kv_cache(r0, st.pool) ELSE r0
        token_indices == IF is_chunk_cache(st.cache)
                         THEN row_slice(st.pool, req.req_pool_idx, 0, seq_len)
                         ELSE row_slice(st.pool, req.req_pool_idx,
                                        last_uncached_pos(req, server_args), seq_len)
        allocator1 == allocator_free(st.allocator, token_indices)
        pool1 == req_to_token_pool_free(st.pool, req.req_pool_idx)
        e == IF is_chunk_cache(st.cache)
             THEN [allocator |-> allocator1, cache |-> st.cache, evictions |-> << >>]
             ELSE evict_tree_cache_if_needed(allocator1,
                      release_last_node(st.cache, req),
                      Len(popped) * RetractDecodeSteps)
    IN  [st EXCEPT !.sorted_indices = popped,
                   !.retracted_reqs = Append(@, rid),
                   !.first_iter = FALSE,
                   !.reqs = [@ EXCEPT ![rid] = reset_for_retract(req)],
                   !.pool = pool1,
                   !.allocator = e.allocator,
                   !.cache = e.cache,
                   !.evictions = @ \o e.evictions,
                   !.offloads =
                       IF server_args.disaggregation_mode = "decode"
                       THEN Append(@, Offload(rid, req, st.pool, st.allocator))
                       ELSE @,
                   !.frees = Append(@, Free(rid, req, st.pool, token_indices,
                                            st.cache, e.cache))]

\* retract_decode, lines 1418-1484: the loop
RECURSIVE retract_loop(_, _, _)
retract_loop(b, server_args, st) ==
    LET tested == [st EXCEPT !.tests = Append(@, LoopTest(st, server_args))]
    IN  IF ~(\/ get_available_size(st.allocator)
                  < get_required_tokens(server_args, Len(st.sorted_indices))
             \/ st.first_iter)
        THEN tested
        ELSE IF is_last_request(st.sorted_indices)
        THEN IF space_for_one_request(st.allocator) THEN tested
             ELSE [tested EXCEPT !.err = "AssertionError"]
        ELSE IF st.sorted_indices = << >>
        THEN [tested EXCEPT !.err = "IndexError"]
        ELSE retract_loop(b, server_args, retract_one(b, server_args, tested))

\* retract_decode, lines 1489-1495: min(1.0, ratio) as a fraction
new_estimate_ratio(b, R) ==
    LET total_decoded_tokens ==
            SumSeq([i \in 1..Len(b.reqs) |-> Len(R[b.reqs[i]].output_ids)])
        total_max_new_tokens ==
            SumSeq([i \in 1..Len(b.reqs) |-> R[b.reqs[i]].sampling_params.max_new_tokens])
        num == total_decoded_tokens + RetractDecodeSteps * Len(b.reqs)
    IN  IF num >= total_max_new_tokens THEN [num |-> 1, den |-> 1]
        ELSE [num |-> num, den |-> total_max_new_tokens]

\* ScheduleBatch.retract_decode(server_args): what it leaves behind, the
\* requests it returns and the tests its loop made
retract_decode(b, R, pool, allocator, cache, server_args) ==
    LET st == retract_loop(b, server_args,
                  RetractState(b, R, pool, allocator, cache, server_args))
        b1 == IF st.err = "none"
              THEN filter_batch(b, Some(st.sorted_indices), {}, st.reqs)
              ELSE b
    IN  [batch |-> b1, reqs |-> st.reqs, pool |-> st.pool,
         allocator |-> st.allocator, cache |-> st.cache, err |-> st.err,
         evictions |-> st.evictions,
         retracted_reqs |-> st.retracted_reqs,
         sorted_indices |-> st.sorted_indices,
         new_estimate_ratio |-> IF st.err = "none" THEN Some(new_estimate_ratio(b1, st.reqs))
                                ELSE NoneVal,
         tests |-> st.tests,
         offloads |-> st.offloads,
         frees |-> st.frees]

----------------------------------------------------------------------------
(* Operations on a request *)

Op(name, rid, arg) == [name |-> name, rid |-> rid, arg |-> arg]

\* The scheduler's result processing appends the sampled token of a running
\* request; check_finished follows before the next token.
AppendToken(i, t) ==
    /\ pc[i] = "idle"
    /\ ~finished(reqs[i])
    /\ Len(reqs[i].output_ids) <= MaxNewTokens
    /\ reqs' = [reqs EXCEPT ![i].output_ids = Append(@, t)]
    /\ pc' = [pc EXCEPT ![i] = "appended"]
    /\ op' = Op("append_token", i, 0)
    /\ err' = "none"
    /\ match_key' = << >>
    /\ UNCHANGED bvars

CheckFinished(i) ==
    /\ \E first_stop \in IterFirst(reqs[i].sampling_params.stop_token_ids),
          first_eos \in IterFirst(reqs[i].eos_token_ids) :
          reqs' = [reqs EXCEPT ![i] = check_finished(@, first_stop, first_eos)]
    /\ err' = IF check_finished_raises(reqs[i]) THEN "IndexError" ELSE "none"
    /\ pc' = [pc EXCEPT ![i] = "idle"]
    /\ op' = Op("check_finished", i, 0)
    /\ match_key' = << >>
    /\ UNCHANGED bvars

\* The abort flag is set from outside the request at any time (lines 480-484)
MarkAbort(i) ==
    /\ ~reqs[i].to_abort
    /\ reqs' = [reqs EXCEPT ![i].to_abort = TRUE]
    /\ op' = Op("to_abort", i, 0)
    /\ err' = "none"
    /\ match_key' = << >>
    /\ UNCHANGED <<pc, bvars>>

SetFinishWithAbort(i) ==
    /\ reqs' = [reqs EXCEPT ![i] = set_finish_with_abort(@, "error_msg")]
    /\ op' = Op("set_finish_with_abort", i, 0)
    /\ err' = "none"
    /\ match_key' = << >>
    /\ UNCHANGED <<pc, bvars>>

ResetForRetract(i) ==
    /\ reqs' = [reqs EXCEPT ![i] = reset_for_retract(@)]
    /\ op' = Op("reset_for_retract", i, 0)
    /\ err' = "none"
    /\ match_key' = << >>
    /\ UNCHANGED <<pc, bvars>>

\* The grammar object of a request reaches its terminal state (its
\* is_terminated() turns true) as it accepts tokens
GrammarTerminates(i) ==
    /\ reqs[i].grammar = "active"
    /\ reqs' = [reqs EXCEPT ![i].grammar = "terminated"]
    /\ op' = Op("grammar_terminated", i, 0)
    /\ err' = "none"
    /\ match_key' = << >>
    /\ UNCHANGED <<pc, bvars>>

AdjustMaxPrefixIds(i) ==
    /\ reqs' = [reqs EXCEPT ![i].fill_ids =
                                reqs[i].origin_input_ids \o reqs[i].output_ids]
    /\ match_key' = adjust_max_prefix_ids(reqs[i])
    /\ op' = Op("adjust_max_prefix_ids", i, 0)
    /\ err' = "none"
    /\ UNCHANGED <<pc, bvars>>

\* init_next_round_input(tree_cache): the key goes to match_prefix
InitNextRoundInputCached(i) ==
    /\ match_key' = adjust_max_prefix_ids(reqs[i])
    /\ \E m \in MatchResults(adjust_max_prefix_ids(reqs[i])) :
          reqs' = [reqs EXCEPT ![i] = init_next_round_input(@, Some(m))]
    /\ op' = Op("init_next_round_input", i, 1)
    /\ err' = "none"
    /\ UNCHANGED <<pc, bvars>>

\* init_next_round_input(None)
InitNextRoundInputNoCache(i) ==
    /\ reqs' = [reqs EXCEPT ![i] = init_next_round_input(@, NoneVal)]
    /\ op' = Op("init_next_round_input", i, 0)
    /\ err' = "none"
    /\ match_key' = << >>
    /\ UNCHANGED <<pc, bvars>>

----------------------------------------------------------------------------
(* Operations on a batch *)

\* The requests of the batch model: prompts that share cached prefixes of
\* different lengths, one request with logprobs and one with multimodal
\* inputs and streaming; the first one is given max_new_tokens n.
BatchReqs(n) ==
    << NewReq(<<0>>, n, FALSE, NoStopConfig, "None", FALSE, 0),
       [NewReq(<<0, 1>>, MaxNewTokens, FALSE, NoStopConfig, "None", TRUE, 1)
           EXCEPT !.top_logprobs_num = 2, !.token_ids_logprob = Some(<<1>>)],
       [NewReq(<<0, 1, 0>>, MaxNewTokens, FALSE, NoStopConfig, "None", FALSE, 0)
           EXCEPT !.multimodal_inputs = 1, !.stream = TRUE] >>

BatchRids == DOMAIN BatchReqs(1)

\* the width of a row of the request-to-token table
ContextLen == 4 + MaxNewTokens

\* The sequences over 0 .. n - 1 without a repeated index
KeepIndices(n) ==
    UNION { {s \in [1..k -> 0..(n - 1)] : \A i, j \in 1..k : i # j => s[i] # s[j]} :
              k \in 0..n }

\* The requests of a set, in the order of the waiting queue
InQueueOrder(S) ==
    CHOOSE s \in [1..Cardinality(S) -> S] : \A i, j \in 1..Cardinality(S) : i < j => s[i] < s[j]

\* A request waits when it holds no row, is not finished and is in no batch
Waiting(rid) ==
    /\ reqs[rid].req_pool_idx = None
    /\ ~finished(reqs[rid])
    /\ ~InBatch(rid, running_batch)

\* PrefillAdder.add_chunked_req, add_one_req: the request that does not fit
\* the rest of the chunk is cut to it
add_chunked_req(r, rem_chunk_tokens) ==
    [r EXCEPT !.extend_input_len = rem_chunk_tokens,
              !.fill_ids = SubSeq(@, 1, Len(r.prefix_indices) + rem_chunk_tokens),
              !.is_chunked = @ + 1]

\* Scheduler.get_new_batch_prefill on the chunked request of the last batch:
\* tree_cache.cache_unfinished_req, which makes the slots of the chunk the
\* prefix of the request, and req_to_token_pool.free of its row
release_chunked_req(R, pool, chunked_req) ==
    IF chunked_req = None THEN [reqs |-> R, pool |-> pool]
    ELSE [reqs |-> [R EXCEPT ![chunked_req].prefix_indices =
                       [k \in 1..Len(R[chunked_req].fill_ids) |->
                           pool.req_to_token[R[chunked_req].req_pool_idx][k - 1]]],
          pool |-> req_to_token_pool_free(pool, R[chunked_req].req_pool_idx)]

\* The pools and batches of a scheduler that has served requests whose
\* prompt began with the tokens 0, 1: the cache holds them in slots 1 and 2
InitPools ==
    /\ running_batch = ScheduleBatch(<< >>)
    /\ new_batch = NoneVal
    /\ stage = [new |-> "none", running |-> "processed"]
    /\ req_to_token_pool = ReqToTokenPool(ReqPoolSize, ContextLen)
    /\ token_to_kv_pool_allocator = TokenToKVPoolAllocator(3, KvSize)
    /\ tree_cache = TreeCache(<<0, 1>>, <<1, 2>>)
    /\ evictions = << >>
    /\ bid = 0
    /\ model_worker_batches = << >>
    /\ global_server_args = ServerArgs("None", "null")

Alive == stage.new # "failed" /\ stage.running # "failed"

\* The scheduler's get_new_batch_prefill: the requests it admits match their
\* prefix and lock it, and the new batch is prepared for the extend pass
NewPrefillBatch(S) ==
    /\ Alive
    /\ stage.new = "none"
    /\ stage.running = "processed"
    /\ S # {}
    /\ \A rid \in S : Waiting(rid) \/ pc[rid] = "chunked"
    /\ \A rid \in BatchRids : pc[rid] = "chunked" => rid \in S
    /\ LET size == global_server_args.chunked_prefill_size
           first == {rid \in S : pc[rid] = "chunked"}
           rids == InQueueOrder(first) \o InQueueOrder(S \ first)
           last == rids[Len(rids)]
           Q == [rid \in BatchRids |->
                    IF rid \in first THEN init_next_round_input(reqs[rid], NoneVal)
                    ELSE IF rid \in S
                    THEN init_next_round_input(reqs[rid],
                             Some(match_prefix(tree_cache,
                                               adjust_max_prefix_ids(reqs[rid]))))
                    ELSE reqs[rid]]
           rem_chunk_tokens ==
               size - SumSeq([j \in 1..(Len(rids) - 1) |-> Q[rids[j]].extend_input_len])
           truncated == size # None /\ Q[last].extend_input_len > rem_chunk_tokens
           R0 == IF truncated
                 THEN [Q EXCEPT ![last] = add_chunked_req(@, rem_chunk_tokens)]
                 ELSE Q
           cache0 == [tree_cache EXCEPT !.lock_ref =
                         [d \in DOMAIN @ |->
                             @[d] + Cardinality({rid \in S \ first :
                                                    R0[rid].last_node >= d})]]
       IN  \E o \in {prepare_for_extend(
                          [init_new(rids, R0) EXCEPT
                              !.chunked_req = IF truncated THEN last ELSE None],
                          R0, req_to_token_pool, token_to_kv_pool_allocator, cache0)} :
           /\ size # None => rem_chunk_tokens > 0
           /\ pc' = [rid \in BatchRids |->
                        IF truncated /\ rid = last THEN "chunked" ELSE "idle"]
           /\ new_batch' = Some(o.batch)
           /\ reqs' = o.reqs
           /\ req_to_token_pool' = o.pool
           /\ token_to_kv_pool_allocator' = o.allocator
           /\ tree_cache' = o.cache
           /\ evictions' = o.evictions
           /\ err' = o.err
           /\ stage' = [stage EXCEPT !.new = IF o.err = "none" THEN "prepared"
                                              ELSE "failed"]
           /\ op' = Op("prepare_for_extend", 1, NoneVal)
    /\ match_key' = << >>
    /\ UNCHANGED <<running_batch, global_server_args, bid, model_worker_batches>>

\* The forward pass of a prepared batch and the processing of its result
ProcessBatchResult(b, token) ==
    LET R1 == process_batch_result(b, reqs, Repeat(token, Len(b.reqs)))
        st == cache_finished_reqs(b.reqs, R1,
                  [pool |-> req_to_token_pool,
                   allocator |-> token_to_kv_pool_allocator,
                   cache |-> tree_cache])
    IN  /\ reqs' = R1
        /\ req_to_token_pool' = st.pool
        /\ token_to_kv_pool_allocator' = st.allocator
        /\ tree_cache' = st.cache
        /\ evictions' = << >>
        /\ err' = "none"
        /\ match_key' = << >>
        /\ UNCHANGED <<pc, global_server_args, bid, model_worker_batches>>

ProcessNewBatch ==
    /\ Alive
    /\ stage.new = "prepared"
    /\ ProcessBatchResult(Val(new_batch), 0)
    /\ new_batch' = Some([Val(new_batch) EXCEPT
                             !.output_ids = Some(Repeat(0, Len(Val(new_batch).reqs)))])
    /\ stage' = [stage EXCEPT !.new = "processed"]
    /\ op' = Op("process_batch_result", 1, NoneVal)
    /\ UNCHANGED running_batch

ProcessRunningBatch ==
    /\ Alive
    /\ stage.running = "prepared"
    /\ ProcessBatchResult(running_batch, 0)
    /\ running_batch' = [running_batch EXCEPT
                            !.output_ids = Some(Repeat(0, Len(running_batch.reqs)))]
    /\ stage' = [stage EXCEPT !.running = "processed"]
    /\ op' = Op("process_batch_result", 0, NoneVal)
    /\ UNCHANGED new_batch

\* What a step that touches only the batches leaves alone
BatchStepFrame ==
    /\ err' = "none"
    /\ match_key' = << >>
    /\ evictions' = << >>
    /\ UNCHANGED <<reqs, pc, req_to_token_pool, token_to_kv_pool_allocator, tree_cache,
                   global_server_args, bid>>

\* get_model_worker_batch passes seq_lens=self.seq_lens (line 1730): the
\* object issued holds the batch's tensor itself, not a copy. seq_lens_of
\* names the batch whose seq_lens is that tensor ("new", "running"), "none"
\* once the batch holds another tensor.
\* The batch named which has bound its seq_lens to a new tensor
Rebound(issued, which) ==
    [k \in 1..Len(issued) |->
        IF issued[k].seq_lens_of = which
        THEN [issued[k] EXCEPT !.seq_lens_of = "none"] ELSE issued[k]]

\* The new batch has become the running batch
Renamed(issued) ==
    [k \in 1..Len(issued) |->
        [issued[k] EXCEPT !.seq_lens_of = IF @ = "new" THEN "running" ELSE "none"]]

\* The tensor of the batch named which was changed in place to seq_lens
ChangedInPlace(issued, which, seq_lens) ==
    [k \in 1..Len(issued) |->
        IF issued[k].seq_lens_of = which
        THEN [issued[k] EXCEPT !.seq_lens = seq_lens] ELSE issued[k]]

\* filter_batch binds seq_lens to a new tensor when it projects the batch
\* (line 1626), not when it returns early
AfterFilter(issued, which, b, filtered) ==
    IF Len(filtered.reqs) \in {0, Len(b.reqs)} THEN issued
    ELSE Rebound(issued, which)

\* prepare_for_decode on the batch named which
AfterPrepareForDecode(issued, which, b, prepared, spec_algorithm) ==
    IF spec_algorithm = "EAGLE" THEN issued
    ELSE IF seq_lens_in_place(b)
    THEN ChangedInPlace(issued, which, prepared.seq_lens)
    ELSE Rebound(issued, which)

\* last_batch.filter_batch() at the start of the next round
FilterNewBatch ==
    /\ Alive
    /\ stage.new = "processed"
    /\ LET chunked_req == Val(new_batch).chunked_req
           s == release_chunked_req(reqs, req_to_token_pool, chunked_req)
       IN  /\ new_batch' = Some(filter_batch(Val(new_batch), NoneVal,
                                  IF chunked_req = None THEN {} ELSE {chunked_req},
                                  reqs))
           /\ reqs' = s.reqs
           /\ req_to_token_pool' = s.pool
    /\ stage' = [stage EXCEPT !.new = "filtered"]
    /\ op' = Op("filter_batch", 1, NoneVal)
    /\ err' = "none"
    /\ match_key' = << >>
    /\ evictions' = << >>
    /\ model_worker_batches' =
           AfterFilter(model_worker_batches, "new", Val(new_batch), Val(new_batch'))
    /\ UNCHANGED <<pc, token_to_kv_pool_allocator, tree_cache, global_server_args, bid,
                   running_batch>>

\* The filtered prefill batch joins the running batch: an empty one is
\* dropped, an empty running batch is replaced, and otherwise
\* running_batch.merge_batch(last_batch)
MergeNewBatch ==
    /\ Alive
    /\ stage.new = "filtered"
    /\ stage.running = "processed"
    /\ IF is_empty(Val(new_batch))
       THEN /\ UNCHANGED running_batch
            /\ model_worker_batches' = Rebound(model_worker_batches, "new")
            /\ op' = Op("get_next_batch_to_run", 0, NoneVal)
       ELSE IF is_empty(running_batch)
       THEN /\ running_batch' = Val(new_batch)
            /\ model_worker_batches' = Renamed(model_worker_batches)
            /\ op' = Op("get_next_batch_to_run", 0, NoneVal)
       ELSE /\ running_batch' = merge_batch(running_batch, Val(new_batch))
            /\ model_worker_batches' =
                   Rebound(Rebound(model_worker_batches, "running"), "new")
            /\ op' = Op("merge_batch", 0, NoneVal)
    /\ new_batch' = NoneVal
    /\ stage' = [stage EXCEPT !.new = "none"]
    /\ BatchStepFrame

\* running_batch.filter_batch() in update_running_batch
FilterRunningBatch ==
    /\ Alive
    /\ stage.running = "processed"
    /\ running_batch' = filter_batch(running_batch, NoneVal, {}, reqs)
    /\ model_worker_batches' =
           AfterFilter(model_worker_batches, "running", running_batch, running_batch')
    /\ op' = Op("filter_batch", 0, NoneVal)
    /\ BatchStepFrame
    /\ UNCHANGED <<new_batch, stage>>

\* running_batch.filter_batch(keep_indices=...), as retraction and
\* speculative decoding call it on a batch whose result is recorded
FilterBatchKeep(keep_indices) ==
    /\ Alive
    /\ stage.running = "processed"
    /\ running_batch.output_ids # NoneVal
    /\ running_batch' = filter_batch(running_batch, Some(keep_indices), {}, reqs)
    /\ model_worker_batches' =
           AfterFilter(model_worker_batches, "running", running_batch, running_batch')
    /\ op' = Op("filter_batch", 0, Some(keep_indices))
    /\ BatchStepFrame
    /\ UNCHANGED <<new_batch, stage>>

\* running_batch.prepare_for_decode() once the finished requests are filtered
\* out; with EAGLE the batch is then prepared by the speculative worker,
\* which is outside this module
PrepareForDecode ==
    /\ Alive
    /\ stage.running = "processed"
    /\ stage.new = "none"
    /\ ~is_empty(running_batch)
    /\ \A i \in 1..Len(running_batch.reqs) : ~finished(reqs[running_batch.reqs[i]])
    /\ \E o \in {prepare_for_decode(running_batch, reqs, req_to_token_pool,
                                    token_to_kv_pool_allocator, tree_cache,
                                    global_server_args.speculative_algorithm)} :
           /\ running_batch' = o.batch
           /\ req_to_token_pool' = o.pool
           /\ token_to_kv_pool_allocator' = o.allocator
           /\ tree_cache' = o.cache
           /\ evictions' = o.evictions
           /\ err' = o.err
           /\ stage' = [stage EXCEPT !.running =
                  IF o.err # "none" THEN "failed"
                  ELSE IF global_server_args.speculative_algorithm = "EAGLE"
                       THEN "speculative" ELSE "prepared"]
           /\ model_worker_batches' =
                  AfterPrepareForDecode(model_worker_batches, "running", running_batch,
                      o.batch, global_server_args.speculative_algorithm)
    /\ op' = Op("prepare_for_decode", 0, NoneVal)
    /\ match_key' = << >>
    /\ UNCHANGED <<reqs, pc, new_batch, global_server_args, bid>>

\* running_batch.retract_decode(server_args) on a batch of decoding requests
RetractDecode ==
    /\ Alive
    /\ stage.running = "processed"
    /\ stage.new = "none"
    /\ ~is_empty(running_batch)
    /\ \A i \in 1..Len(running_batch.reqs) : ~finished(reqs[running_batch.reqs[i]])
    /\ \E o \in {retract_decode(running_batch, reqs, req_to_token_pool,
                                token_to_kv_pool_allocator, tree_cache,
                                global_server_args)} :
           /\ running_batch' = o.batch
           /\ reqs' = o.reqs
           /\ req_to_token_pool' = o.pool
           /\ token_to_kv_pool_allocator' = o.allocator
           /\ tree_cache' = o.cache
           /\ evictions' = o.evictions
           /\ err' = o.err
           /\ stage' = [stage EXCEPT !.running = IF o.err = "none" THEN "processed"
                                                  ELSE "failed"]
           /\ op' = Op("retract_decode", 0,
                       [server_args |-> global_server_args,
                        retracted_reqs |-> o.retracted_reqs,
                        new_estimate_ratio |-> o.new_estimate_ratio,
                        tests |-> o.tests,
                        offloads |-> o.offloads,
                        frees |-> o.frees])
    /\ match_key' = << >>
    /\ UNCHANGED <<pc, new_batch, global_server_args, bid, model_worker_batches>>

\* running_batch.check_decode_mem() before a decode step
CheckDecodeMem ==
    /\ Alive
    /\ stage.running = "processed"
    /\ stage.new = "none"
    /\ ~is_empty(running_batch)
    /\ \A i \in 1..Len(running_batch.reqs) : ~finished(reqs[running_batch.reqs[i]])
    /\ LET c == check_decode_mem(running_batch, token_to_kv_pool_allocator, tree_cache, 1)
       IN  /\ token_to_kv_pool_allocator' = c.allocator
           /\ tree_cache' = c.cache
           /\ evictions' = c.evictions
           /\ op' = Op("check_decode_mem", 0, [result |-> c.result])
    /\ err' = "none"
    /\ match_key' = << >>
    /\ UNCHANGED <<reqs, pc, running_batch, new_batch, stage, req_to_token_pool,
                   global_server_args, bid, model_worker_batches>>

\* Specification SpecBatch: the rounds of a scheduler over a prefill batch
\* and the running batch.
InitBatch ==
    /\ \E n \in 1..MaxNewTokens : reqs = BatchReqs(n)
    /\ pc = [i \in BatchRids |-> "idle"]
    /\ op = Op("init", 0, NoneVal)
    /\ err = "none"
    /\ match_key = << >>
    /\ InitPools

NextBatch ==
    \/ \E S \in SUBSET BatchRids : NewPrefillBatch(S)
    \/ ProcessNewBatch
    \/ FilterNewBatch
    \/ MergeNewBatch
    \/ FilterRunningBatch
    \/ \E keep_indices \in KeepIndices(Len(running_batch.reqs)) :
           FilterBatchKeep(keep_indices)
    \/ PrepareForDecode
    \/ ProcessRunningBatch
    \/ RetractDecode

SpecBatch == InitBatch /\ [][NextBatch]_vars

\* Specification SpecRetract: retraction on running batches of decoding
\* requests that joined at different rounds, over the free KV slots, the kind
\* of cache and allocator and the server arguments.
OutputLens == {1, 2}
InputLens == {1, 2}
BatchSizes == 1..2
FreeSlots == 0..5
SwaReserves == {0, 1}

\* the output lengths and input lengths of the requests of a running batch:
\* every batch of one or two requests, and batches of three and four
RetractConfigs ==
    UNION { [outs : [1..n -> OutputLens], ins : [1..n -> InputLens]] : n \in BatchSizes }
    \cup { [outs |-> <<1, 1, 1>>, ins |-> <<1, 2, 1>>],
           [outs |-> <<2, 1, 2>>, ins |-> <<1, 1, 1>>],
           [outs |-> <<1, 2, 1>>, ins |-> <<2, 1, 2>>],
           [outs |-> <<2, 2, 2>>, ins |-> <<1, 2, 2>>],
           [outs |-> <<10, 3, 7, 1>>, ins |-> <<1, 1, 1, 1>>] }

ServerArgsChoices ==
    { ServerArgs("None", "null"), ServerArgs("EAGLE", "null"), ServerArgs("None", "decode") }

\* the caches init_new accepts with each allocator
CacheOfKind(hybrid, chunk) ==
    IF chunk
    THEN [ChunkCache EXCEPT !.kind = IF hybrid THEN "SWAChunkCache" ELSE "ChunkCache"]
    ELSE [TreeCache(<<0, 1>>, <<1, 2>>) EXCEPT
             !.kind = IF hybrid THEN "SWARadixCache" ELSE "RadixCache"]

\* The prefill of the requests of cfg: request i has cfg.ins[i] prompt
\* tokens, matches its prefix in the cache and locks it, and the batch of all
\* of them is prepared for the extend pass
PrefillBatch(cfg, free, hybrid, chunk) ==
    LET n == Len(cfg.outs)
        cache == CacheOfKind(hybrid, chunk)
        first == Len(cache.slots) + 1
        width == SumSeq(cfg.ins) + SumSeq(cfg.outs)
        R0 == [i \in 1..n |->
                 LET fresh == NewReq(SubSeq(<<0, 1>>, 1, cfg.ins[i]), cfg.outs[i] + 1,
                                     FALSE, NoStopConfig, "None", FALSE, 0)
                 IN  init_next_round_input(fresh,
                         Some(match_prefix(cache, adjust_max_prefix_ids(fresh))))]
        cache0 == [cache EXCEPT !.lock_ref =
                      [d \in DOMAIN @ |->
                          @[d] + Cardinality({i \in 1..n : R0[i].last_node >= d})]]
    IN  prepare_for_extend(init_new([i \in 1..n |-> i], R0), R0,
                           ReqToTokenPool(n, width),
                           TokenToKVPoolAllocator(first, first + width + free),
                           cache0)

\* The running batch of the requests of cfg after the prefill o and their
\* decoding rounds, with its pools: request i has cfg.outs[i] output tokens,
\* the last of which holds no KV slot yet, and free slots are left
DecodeBatch(cfg, free, hybrid, swa_reserve, o) ==
    LET n == Len(cfg.outs)
        F == o.allocator.free_pages
        offset == [i \in 1..n |-> SumSeq([j \in 1..(i - 1) |-> cfg.outs[j] - 1])]
        used == SumSeq([j \in 1..n |-> cfg.outs[j] - 1])
        seq_lens == [i \in 1..n |-> cfg.ins[i] + cfg.outs[i] - 1]
        decoded == \E i \in 1..n : cfg.outs[i] > 1
    IN  [batch |-> [o.batch EXCEPT
                       !.forward_mode = IF decoded THEN "DECODE" ELSE @,
                       !.input_ids = IF decoded THEN Some(Repeat(0, n)) ELSE @,
                       !.seq_lens = Some(seq_lens),
                       !.seq_lens_sum = SumSeq(seq_lens),
                       !.out_cache_loc = NoneVal,
                       !.output_ids = Some(Repeat(0, n))],
         reqs |-> [i \in 1..n |->
                     [o.reqs[i] EXCEPT !.output_ids = Repeat(0, cfg.outs[i])]],
         pool |-> [o.pool EXCEPT !.req_to_token =
                     [row \in DOMAIN @ |->
                         LET i == CHOOSE j \in 1..n : o.reqs[j].req_pool_idx = row
                         IN  [col \in DOMAIN @[row] |->
                                IF col >= cfg.ins[i] /\ col < seq_lens[i]
                                THEN F[offset[i] + (col - cfg.ins[i]) + 1]
                                ELSE @[row][col]]]],
         allocator |-> [o.allocator EXCEPT
                           !.kind = IF hybrid THEN "SWATokenToKVPoolAllocator" ELSE @,
                           !.swa_reserve = swa_reserve,
                           !.free_pages = SubSeq(F, used + 1, used + free)],
         cache |-> o.cache]

InitRetract ==
    \E cfg \in RetractConfigs, free \in FreeSlots, hybrid \in BOOLEAN, chunk \in BOOLEAN,
       swa_reserve \in SwaReserves :
        /\ swa_reserve <= free
        /\ ~hybrid => swa_reserve = 0
        /\ hybrid => ~chunk
        /\ \E o \in {PrefillBatch(cfg, free, hybrid, chunk)} :
              \E d \in {DecodeBatch(cfg, free, hybrid, swa_reserve, o)} :
                  /\ reqs = d.reqs
                  /\ running_batch = d.batch
                  /\ req_to_token_pool = d.pool
                  /\ token_to_kv_pool_allocator = d.allocator
                  /\ tree_cache = d.cache
        /\ pc = [i \in 1..Len(cfg.outs) |-> "idle"]
        /\ op = Op("init", 0, NoneVal)
        /\ err = "none"
        /\ match_key = << >>
        /\ new_batch = NoneVal
        /\ stage = [new |-> "none", running |-> "processed"]
        /\ evictions = << >>
        /\ bid = 0
        /\ model_worker_batches = << >>
        /\ global_server_args \in ServerArgsChoices

NextRetract ==
    \/ RetractDecode
    \/ CheckDecodeMem
    \/ PrepareForDecode
    \/ ProcessRunningBatch
    \/ FilterRunningBatch

SpecRetract == InitRetract /\ [][NextRetract]_vars

----------------------------------------------------------------------------
(* Specification SpecAlloc: the allocation helpers of a batch, called on
   pools of every fill level until one of them raises *)

MaxPageSize == 2
MaxFreePages == 3
MaxAllocLen == 3

\* prefix lengths, sequence lengths and last prefix slots (in pages that are
\* in use) of the one or two requests of a batch
AllocBatches(page_size) ==
    {[prefix_lens |-> [i \in DOMAIN b |-> b[i].pre],
      seq_lens |-> [i \in DOMAIN b |-> b[i].seq],
      last_loc |-> [i \in DOMAIN b |->
                       IF b[i].pre = 0 THEN -1
                       ELSE (20 + i) * page_size + ((b[i].pre - 1) % page_size)]] :
        b \in {c \in UNION {[1..n -> [pre : 0..MaxAllocLen, seq : 1..MaxAllocLen]] :
                               n \in 1..2} :
                  \A i \in DOMAIN c : c[i].pre < c[i].seq}}

\* The helper returned a, or raised when a holds no slots; nothing is called
\* after a helper raised
AllocDone(name, num, a) ==
    /\ err = "none"
    /\ token_to_kv_pool_allocator' = a.allocator
    /\ tree_cache' = a.cache
    /\ evictions' = a.evictions
    /\ err' = IF a.out_cache_loc = NoneVal THEN "RuntimeError" ELSE "none"
    /\ op' = Op(name, 0, [num |-> num, returned |-> a.out_cache_loc])
    /\ match_key' = << >>
    /\ UNCHANGED <<reqs, pc, running_batch, new_batch, stage, req_to_token_pool,
                   global_server_args, bid, model_worker_batches>>

AllocReqSlots ==
    /\ err = "none"
    /\ \E num_reqs \in 1..ReqPoolSize :
          LET a == alloc_req_slots(req_to_token_pool, num_reqs)
          IN  /\ req_to_token_pool' = a.pool
              /\ err' = a.err
              /\ op' = Op("alloc_req_slots", 0,
                          [num |-> num_reqs, returned |-> a.req_pool_indices])
    /\ evictions' = << >>
    /\ match_key' = << >>
    /\ UNCHANGED <<reqs, pc, running_batch, new_batch, stage, global_server_args, bid, model_worker_batches,
                   token_to_kv_pool_allocator, tree_cache>>

AllocTokenSlots ==
    /\ token_to_kv_pool_allocator.page_size = 1
    /\ \E num_tokens \in 1..MaxAllocLen :
          AllocDone("alloc_token_slots", num_tokens,
                    alloc_token_slots(token_to_kv_pool_allocator, tree_cache, num_tokens))

AllocPagedTokenSlotsExtend ==
    \E b \in AllocBatches(token_to_kv_pool_allocator.page_size) :
        AllocDone("alloc_paged_token_slots_extend",
                  SumSeq(b.seq_lens) - SumSeq(b.prefix_lens),
                  alloc_paged_token_slots_extend(token_to_kv_pool_allocator,
                      tree_cache, b.prefix_lens, b.seq_lens, b.last_loc,
                      SumSeq(b.seq_lens) - SumSeq(b.prefix_lens)))

\* the decode step of requests of 2 and more tokens: the last slot is the one
\* before the new token
AllocPagedTokenSlotsDecode ==
    \E b \in AllocBatches(token_to_kv_pool_allocator.page_size) :
        /\ \A i \in DOMAIN b.seq_lens : b.prefix_lens[i] = b.seq_lens[i] - 1
        /\ \A i \in DOMAIN b.seq_lens : b.prefix_lens[i] > 0
        /\ AllocDone("alloc_paged_token_slots_decode", Len(b.seq_lens),
                     alloc_paged_token_slots_decode(token_to_kv_pool_allocator,
                         tree_cache, b.seq_lens, b.last_loc))

\* an allocator of pages 1 .. free, of one slot or more; a paged allocator has
\* no evictable cache here, a cache of single slots has two tokens that are
\* free to evict, partly locked or locked
InitAlloc ==
    /\ reqs = << >>
    /\ pc = << >>
    /\ op = Op("init", 0, NoneVal)
    /\ err = "none"
    /\ match_key = << >>
    /\ running_batch = ScheduleBatch(<< >>)
    /\ new_batch = NoneVal
    /\ stage = [new |-> "none", running |-> "processed"]
    /\ req_to_token_pool = ReqToTokenPool(ReqPoolSize, ContextLen)
    /\ \E page_size \in 1..MaxPageSize, free \in 0..MaxFreePages :
          /\ token_to_kv_pool_allocator =
                 [TokenToKVPoolAllocator(1, free) EXCEPT !.page_size = page_size]
          /\ tree_cache \in
                 IF page_size > 1 THEN {ChunkCache}
                 ELSE {ChunkCache} \cup
                      {[TreeCache(<<0, 1>>, <<10, 11>>) EXCEPT !.lock_ref = l] :
                           l \in {<<0, 0>>, <<1, 0>>, <<1, 1>>}}
    /\ evictions = << >>
    /\ bid = 0
    /\ model_worker_batches = << >>
    /\ global_server_args = ServerArgs("None", "null")

NextAlloc ==
    \/ AllocReqSlots
    \/ AllocTokenSlots
    \/ AllocPagedTokenSlotsExtend
    \/ AllocPagedTokenSlotsDecode

SpecAlloc == InitAlloc /\ [][NextAlloc]_vars

----------------------------------------------------------------------------
(* Specification SpecChunk: the operations of SpecBatch with chunked prefill,
   on a request whose input of three tokens is not in the cache *)

InitChunk ==
    /\ reqs = [rid \in BatchRids |->
                  [BatchReqs(1)[rid] EXCEPT
                      !.origin_input_ids = IF rid = 1 THEN <<1, 0, 1>> ELSE @,
                      !.sampling_params.max_new_tokens = 2]]
    /\ pc = [i \in BatchRids |-> "idle"]
    /\ op = Op("init", 0, NoneVal)
    /\ err = "none"
    /\ match_key = << >>
    /\ running_batch = ScheduleBatch(<< >>)
    /\ new_batch = NoneVal
    /\ stage = [new |-> "none", running |-> "processed"]
    /\ req_to_token_pool = ReqToTokenPool(ReqPoolSize, ContextLen)
    /\ token_to_kv_pool_allocator = TokenToKVPoolAllocator(3, KvSize + 3)
    /\ tree_cache = TreeCache(<<0, 1>>, <<1, 2>>)
    /\ evictions = << >>
    /\ bid = 0
    /\ model_worker_batches = << >>
    /\ \E chunked_prefill_size \in 1..2 :
          global_server_args = [ServerArgs("None", "null") EXCEPT
                                   !.chunked_prefill_size = chunked_prefill_size]

NextChunk ==
    \/ \E S \in SUBSET BatchRids : NewPrefillBatch(S)
    \/ ProcessNewBatch
    \/ FilterNewBatch
    \/ MergeNewBatch
    \/ FilterRunningBatch
    \/ PrepareForDecode
    \/ ProcessRunningBatch
    \/ RetractDecode

SpecChunk == InitChunk /\ [][NextChunk]_vars

----------------------------------------------------------------------------
(* Specification SpecMerge: a prefill batch of one or two requests joins a
   running batch of one to three, with and without logprobs on either side;
   the batches are handed to the worker for their forward passes *)

\* the requests of a running batch and of a new batch, prefilled one batch
\* after the other; a batch returns logprobs when its requests ask for them
InitMerge ==
    \E n \in 1..3, k \in 1..2, mine \in BOOLEAN, theirs \in BOOLEAN, top \in 1..2,
       enable_overlap \in BOOLEAN :
        LET return_logprob == [rid \in 1..(n + k) |-> IF rid <= n THEN mine ELSE theirs]
            R == [rid \in 1..(n + k) |->
                    [NewReq(<<0>>, 3, FALSE, NoStopConfig, "None", return_logprob[rid], 0)
                        EXCEPT !.top_logprobs_num =
                                   IF return_logprob[rid] THEN 1 + ((rid + top) % 2) ELSE 0,
                               !.token_ids_logprob =
                                   IF return_logprob[rid] /\ rid % 2 = 0
                                   THEN Some(<<top - 1>>) ELSE NoneVal]]
        IN
        \E R0 \in {[rid \in DOMAIN R |-> init_next_round_input(R[rid], NoneVal)]} :
        \E self \in {prepare_for_extend(
                          [init_new([i \in 1..n |-> i], R0)
                              EXCEPT !.enable_overlap = enable_overlap], R0,
                          ReqToTokenPool(n + k, ContextLen),
                          TokenToKVPoolAllocator(1, 4 * (n + k)), ChunkCache)} :
        \E R1 \in {process_batch_result(self.batch, self.reqs, Repeat(0, n))} :
        \E other \in {prepare_for_extend(
                           [init_new([i \in 1..k |-> n + i], R1)
                               EXCEPT !.enable_overlap = enable_overlap],
                           R1, self.pool, self.allocator, self.cache)} :
            /\ reqs = other.reqs
            /\ running_batch = [self.batch EXCEPT !.output_ids = Some(Repeat(0, n))]
            /\ new_batch = Some(other.batch)
            /\ req_to_token_pool = other.pool
            /\ token_to_kv_pool_allocator = other.allocator
            /\ tree_cache = other.cache
            /\ pc = [rid \in 1..(n + k) |-> "idle"]
            /\ op = Op("prepare_for_extend", 1, NoneVal)
            /\ err = "none"
            /\ match_key = << >>
            /\ stage = [new |-> "prepared", running |-> "processed"]
            /\ evictions = << >>
            /\ bid = 0
            /\ model_worker_batches = << >>
            /\ global_server_args = ServerArgs("None", "null")

MaxBid == 3

\* get_model_worker_batch() on the batch that was prepared for its forward
\* pass: the new prefill batch (which = 1) or the running batch (which = 0)
GetModelWorkerBatch ==
    /\ Alive
    /\ bid < MaxBid
    /\ \E which \in {0, 1} :
          /\ IF which = 1 THEN stage.new = "prepared" ELSE stage.running = "prepared"
          /\ LET b == IF which = 1 THEN Val(new_batch) ELSE running_batch
                 m == get_model_worker_batch(b, bid)
             IN  /\ bid' = m.bid
                 /\ model_worker_batches' =
                        Append(model_worker_batches,
                               m @@ [seq_lens_of |->
                                        IF which = 1 THEN "new" ELSE "running"])
          /\ op' = Op("get_model_worker_batch", which, NoneVal)
    /\ err' = "none"
    /\ match_key' = << >>
    /\ evictions' = << >>
    /\ UNCHANGED <<reqs, pc, running_batch, new_batch, stage, req_to_token_pool,
                   token_to_kv_pool_allocator, tree_cache, global_server_args>>

\* A mixed chunk: the running batch is filtered and prepared for its decode
\* step, the prepared prefill batch takes its requests in by
\* mix_with_running, and the scheduler goes on with an empty running batch
MixWithRunning ==
    /\ Alive
    /\ stage.new = "prepared"
    /\ stage.running = "processed"
    /\ \E filtered \in {filter_batch(running_batch, NoneVal, {}, reqs)} :
          /\ ~is_empty(filtered)
          /\ \E d \in {prepare_for_decode(filtered, reqs, req_to_token_pool,
                                          token_to_kv_pool_allocator, tree_cache,
                                          global_server_args.speculative_algorithm)} :
                /\ req_to_token_pool' = d.pool
                /\ token_to_kv_pool_allocator' = d.allocator
                /\ tree_cache' = d.cache
                /\ evictions' = d.evictions
                /\ err' = d.err
                /\ model_worker_batches' =
                       LET issued == AfterPrepareForDecode(
                                         AfterFilter(model_worker_batches, "running",
                                                     running_batch, filtered),
                                         "running", filtered, d.batch,
                                         global_server_args.speculative_algorithm)
                       IN  IF d.err # "none" THEN issued
                           ELSE Rebound(Rebound(issued, "running"), "new")
                /\ IF d.err # "none"
                   THEN /\ running_batch' = d.batch
                        /\ stage' = [stage EXCEPT !.running = "failed"]
                        /\ op' = Op("prepare_for_decode", 0, NoneVal)
                        /\ UNCHANGED <<new_batch, reqs>>
                   ELSE \E m \in {mix_with_running(Val(new_batch), d.batch, d.reqs)} :
                        /\ new_batch' = Some(m.batch)
                        /\ reqs' = m.reqs
                        /\ running_batch' = ScheduleBatch(<< >>)
                        /\ stage' = stage
                        /\ op' = Op("mix_with_running", 1,
                                    [self |-> Val(new_batch), running_batch |-> d.batch])
    /\ match_key' = << >>
    /\ UNCHANGED <<pc, global_server_args, bid>>

NextMerge ==
    \/ GetModelWorkerBatch
    \/ MixWithRunning
    \/ ProcessNewBatch
    \/ FilterNewBatch
    \/ MergeNewBatch
    \/ PrepareForDecode
    \/ ProcessRunningBatch
    \/ FilterRunningBatch

SpecMerge == InitMerge /\ [][NextMerge]_vars

----------------------------------------------------------------------------
(* Specification SpecEncoder: the batches of a plain and of an
   encoder-decoder model, whose requests carry no, one or two image tokens
   at the head of a prompt of three tokens; idle batches in between *)

\* the prompt of a request of SpecEncoder: the image tokens come first
EncoderPrompt == <<0, 0, 0>>

InitEncoder ==
    \E n \in 1..2, k \in 1..2, is_encoder_decoder \in BOOLEAN, images \in 0..2 :
        \E R0 \in {[rid \in 1..(n + k) |->
                       init_next_round_input(
                           [NewReq(EncoderPrompt, MaxNewTokens, FALSE, NoStopConfig,
                                   "None", FALSE, 0)
                               EXCEPT !.multimodal_inputs =
                                          IF (rid + images) % 3 = 0 THEN None
                                          ELSE (rid + images) % 3],
                           NoneVal)]} :
        \E self \in {prepare_for_extend(
                          [init_new([i \in 1..n |-> i], R0)
                              EXCEPT !.is_encoder_decoder = is_encoder_decoder], R0,
                          ReqToTokenPool(n + k, ContextLen),
                          TokenToKVPoolAllocator(1, ContextLen * (n + k)), ChunkCache)} :
        \E R1 \in {process_batch_result(self.batch, self.reqs, Repeat(0, n))} :
        \E other \in {prepare_for_extend(
                           [init_new([i \in 1..k |-> n + i], R1)
                               EXCEPT !.is_encoder_decoder = is_encoder_decoder],
                           R1, self.pool, self.allocator, self.cache)} :
            /\ reqs = other.reqs
            /\ running_batch = [self.batch EXCEPT !.output_ids = Some(Repeat(0, n))]
            /\ new_batch = Some(other.batch)
            /\ req_to_token_pool = other.pool
            /\ token_to_kv_pool_allocator = other.allocator
            /\ tree_cache = other.cache
            /\ pc = [rid \in 1..(n + k) |-> "idle"]
            /\ op = Op("prepare_for_extend", 1, NoneVal)
            /\ err = "none"
            /\ match_key = << >>
            /\ stage = [new |-> "prepared", running |-> "processed"]
            /\ evictions = << >>
            /\ bid = 0
            /\ model_worker_batches = << >>
            /\ global_server_args = ServerArgs("None", "null")

\* get_idle_batch: with nothing to run, a batch without requests is made
\* and prepared for an idle forward pass
PrepareForIdle ==
    /\ Alive
    /\ stage.new = "none"
    /\ stage.running = "processed"
    /\ is_empty(running_batch)
    /\ new_batch' = Some(prepare_for_idle(
                             [init_new(<< >>, reqs) EXCEPT
                                 !.is_encoder_decoder = running_batch.is_encoder_decoder]))
    /\ stage' = [stage EXCEPT !.new = "prepared"]
    /\ op' = Op("prepare_for_idle", 1, NoneVal)
    /\ BatchStepFrame
    /\ UNCHANGED <<running_batch, model_worker_batches>>

NextEncoder ==
    \/ ProcessNewBatch
    \/ FilterNewBatch
    \/ MergeNewBatch
    \/ PrepareForDecode
    \/ ProcessRunningBatch
    \/ FilterRunningBatch
    \/ PrepareForIdle

SpecEncoder == InitEncoder /\ [][NextEncoder]_vars

----------------------------------------------------------------------------
(* Specification SpecPaged: retract_decode on running batches under a prefix
   cache with eviction, for pages of one slot and of more. The cache of a
   paged allocator holds whole pages; the prefix of a request can end inside
   a page, which the request then owns (a prompt prefilled in chunks). *)

\* the cached path: the whole pages that two tokens take, from page 1 on
PagedCache(page_size) ==
    LET len == ((2 + page_size - 1) \div page_size) * page_size
    IN  [TreeCache([k \in 1..len |-> (k - 1) % 2], [k \in 1..len |-> page_size + k - 1])
            EXCEPT !.page_size = page_size]

\* the prompt of a request with a prefix of pre tokens
PagedPrompt(pre) == [k \in 1..(pre + 1) |-> (k - 1) % 2]

\* the part of a prefix of pre tokens that the cache holds
CachedLen(pre, page_size) ==
    IF page_size = 1 THEN pre ELSE (pre \div page_size) * page_size

\* the prefix lengths of the requests: the cached path and, behind it, less
\* than a page
PrefixLens(page_size) == 0..(Len(PagedCache(page_size).slots) + page_size - 1)

\* request i has a prefix of cfg[i].pre tokens and cfg[i].outs output
\* tokens, the last of which holds no slot yet; a slot of its own at column
\* col is slot 8 * page_size * i + col. Batches of one and two requests, and batches of
\* three with one output token each.
PagedConfigs(page_size) ==
    UNION {[1..n -> [pre : PrefixLens(page_size), outs : 1..2]] : n \in 1..2}
    \cup [1..3 -> [pre : PrefixLens(page_size) \ {1}, outs : {1}]]

PagedRow(i, c, page_size) ==
    [col \in 0..(ContextLen - 1) |->
        IF col < CachedLen(c.pre, page_size) THEN PagedCache(page_size).slots[col + 1]
        ELSE IF col < c.pre + c.outs THEN 8 * page_size * i + col
        ELSE 0]

InitPaged ==
    \E page_size \in 1..MaxPageSize, free \in 0..MaxFreePages :
    \E cfg \in PagedConfigs(page_size) :
    \E n \in {Len(cfg)} :
    \E R \in {[i \in 1..n |->
                  [init_next_round_input(
                       NewReq(PagedPrompt(cfg[i].pre), cfg[i].outs + 1, FALSE,
                              NoStopConfig, "None", FALSE, 0),
                       Some([prefix_indices |->
                                 [k \in 1..cfg[i].pre |-> PagedRow(i, cfg[i], page_size)[k - 1]],
                             last_node |-> CachedLen(cfg[i].pre, page_size)]))
                      EXCEPT !.req_pool_idx = i - 1,
                             !.output_ids = Repeat(0, cfg[i].outs)]]} :
    \E seq_lens \in {[i \in 1..n |-> cfg[i].pre + cfg[i].outs]} :
        /\ reqs = R
        /\ running_batch =
               [init_new([i \in 1..n |-> i], R) EXCEPT
                   !.forward_mode = "DECODE",
                   !.input_ids = Some(Repeat(0, n)),
                   !.req_pool_indices = Some([i \in 1..n |-> i - 1]),
                   !.seq_lens = Some(seq_lens),
                   !.seq_lens_sum = SumSeq(seq_lens),
                   !.multimodal_inputs = Some(Repeat(None, n)),
                   !.output_ids = Some(Repeat(0, n)),
                   !.sampling_info = Some([i \in 1..n |-> i])]
        /\ req_to_token_pool =
               [free_slots |-> << >>,
                req_to_token |-> [row \in 0..(n - 1) |->
                                     PagedRow(row + 1, cfg[row + 1], page_size)]]
        /\ token_to_kv_pool_allocator =
               [TokenToKVPoolAllocator(100, 99 + free) EXCEPT !.page_size = page_size]
        /\ tree_cache =
               [PagedCache(page_size) EXCEPT !.lock_ref =
                   [d \in DOMAIN @ |->
                       Cardinality({i \in 1..n : R[i].last_node >= d})]]
        /\ pc = [i \in 1..n |-> "idle"]
        /\ op = Op("init", 0, NoneVal)
        /\ err = "none"
        /\ match_key = << >>
        /\ new_batch = NoneVal
        /\ stage = [new |-> "none", running |-> "processed"]
        /\ evictions = << >>
        /\ bid = 0
        /\ model_worker_batches = << >>
        /\ \E server_args \in ServerArgsChoices :
               global_server_args = [server_args EXCEPT !.page_size = page_size]

NextPaged ==
    \/ RetractDecode

SpecPaged == InitPaged /\ [][NextPaged]_vars

\* Specification Spec: the lifecycle of a request, from a running request to a
\* finished one, over every stop configuration.
Init ==
    /\ reqs \in [Rids -> StopReqs]
    /\ pc = [i \in Rids |-> "idle"]
    /\ op = Op("init", 0, 0)
    /\ err = "none"
    /\ match_key = << >>
    /\ InitPools

Next ==
    \E i \in Rids :
        \/ \E t \in SampledIds : AppendToken(i, t)
        \/ CheckFinished(i)
        \/ MarkAbort(i)
        \/ SetFinishWithAbort(i)
        \/ ResetForRetract(i)
        \/ GrammarTerminates(i)

Spec == Init /\ [][Next]_vars

\* A decode round of request i: the scheduler's result processing appends
\* the sampled token ...
DecodeOneToken(i) == \E t \in SampledIds : AppendToken(i, t)

\* ... and calls check_finished before the next token
CheckAfterToken(i) == pc[i] = "appended" /\ CheckFinished(i)

\* Specification SpecFair: the lifecycle under a scheduler that keeps
\* decoding every unfinished request, one token and one check_finished at a
\* time; aborts and retractions come as they like
SpecFair ==
    /\ Init
    /\ [][Next]_vars
    /\ \A i \in Rids : WF_vars(DecodeOneToken(i)) /\ WF_vars(CheckAfterToken(i))

\* Specification SpecPrefix: the prefix matching of a request at the start of
\* each round, over prompts and input-logprob configurations. The sampler
\* hands back valid token ids.
InitPrefix ==
    /\ reqs \in [Rids -> PrefixReqs]
    /\ pc = [i \in Rids |-> "idle"]
    /\ op = Op("init", 0, 0)
    /\ err = "none"
    /\ match_key = << >>
    /\ InitPools

NextPrefix ==
    \E i \in Rids :
        \/ \E t \in ValidIds : AppendToken(i, t)
        \/ CheckFinished(i)
        \/ SetFinishWithAbort(i)
        \/ ResetForRetract(i)
        \/ AdjustMaxPrefixIds(i)
        \/ InitNextRoundInputCached(i)
        \/ InitNextRoundInputNoCache(i)

SpecPrefix == InitPrefix /\ [][NextPrefix]_vars

----------------------------------------------------------------------------
(* Claims on the request lifecycle (specification Spec) *)

IsCheckFinished(i) == op' = Op("check_finished", i, 0)

\* C1: once finished_reason of a request is set, no operation clears it or
\* replaces it by another value.
C1_FinishedReasonNeverReplaced ==
    [][\A i \in Rids :
          finished(reqs[i]) => reqs'[i].finished_reason = reqs[i].finished_reason]_vars

\* C2: check_finished on a running request whose to_abort flag is set finishes
\* it with Abort, whatever other stop condition holds at that step.
C2_AbortPreemptsEverything ==
    [][\A i \in Rids :
          (IsCheckFinished(i) /\ ~finished(reqs[i]) /\ reqs[i].to_abort)
          => reqs'[i].finished_reason.type = "FINISH_ABORT"]_vars

\* A check_finished call has aborted a request whose output had also reached
\* max_new_tokens and ended in a stop token.
C2_Witness ==
    \E i \in Rids :
        /\ op = Op("check_finished", i, 0)
        /\ reqs[i].finished_reason = FINISH_ABORT("None", "None", "None")
        /\ reqs[i].to_abort
        /\ Len(reqs[i].output_ids) > 0
        /\ Len(reqs[i].output_ids) >= reqs[i].sampling_params.max_new_tokens
        /\ ~reqs[i].sampling_params.ignore_eos
        /\ matched_eos(reqs[i])

\* C3: check_finished on a running request without abort flag and with
\* len(output_ids) >= max_new_tokens finishes it with Length, also when the
\* last token is a stop token or completes a stop string.
C3_LengthPreemptsStops ==
    [][\A i \in Rids :
          (/\ IsCheckFinished(i)
           /\ ~finished(reqs[i])
           /\ ~reqs[i].to_abort
           /\ Len(reqs[i].output_ids) >= reqs[i].sampling_params.max_new_tokens)
          => reqs'[i].finished_reason =
                 FINISH_LENGTH(reqs[i].sampling_params.max_new_tokens)]_vars

\* A request finished with Length by check_finished although its last token
\* completed a stop string in the decoded tail.
C3_Witness ==
    \E i \in Rids :
        /\ op = Op("check_finished", i, 0)
        /\ reqs[i].finished_reason.type = "FINISH_LENGTH"
        /\ Len(reqs[i].output_ids) > 0
        /\ \E k \in 1..Len(reqs[i].sampling_params.stop_strs) :
              StrIn(reqs[i].sampling_params.stop_strs[k], tail_str(reqs[i]))

\* The stop conditions as the specification words them
GrammarTerminated(r) == r.grammar = "terminated"

StopTokenIds(r) ==
    r.sampling_params.stop_token_ids \cup r.eos_token_ids
    \cup (IF r.tokenizer = NoneVal THEN {}
          ELSE {Val(r.tokenizer).eos_token_id}
               \cup Val(r.tokenizer).additional_stop_token_ids)

OutOfVocabulary(r, t) == t < 0 \/ t >= r.vocab_size

StopStringMatches(r) ==
    \E k \in 1..Len(r.sampling_params.stop_strs) :
        stop_str_matched(r, r.sampling_params.stop_strs[k])

ExpectedFinishType(r) ==
    IF GrammarTerminated(r) THEN "FINISH_MATCHED_TOKEN"
    ELSE IF ~r.sampling_params.ignore_eos /\ Last(r.output_ids) \in StopTokenIds(r)
    THEN "FINISH_MATCHED_TOKEN"
    ELSE IF OutOfVocabulary(r, Last(r.output_ids)) THEN "FINISH_MATCHED_STR"
    ELSE IF StopStringMatches(r) THEN "FINISH_MATCHED_STR"
    ELSE "None"

\* C4: for a running request without abort flag and with fewer than
\* max_new_tokens output tokens, check_finished applies the first condition
\* that holds of: grammar terminated (MatchedToken of the last token), stop/eos
\* token unless ignore_eos (MatchedToken), last token outside the vocabulary
\* (MatchedStr), a stop string matches (MatchedStr); otherwise the request
\* stays running.
C4_StopConditionOrder ==
    [][\A i \in Rids :
          (/\ IsCheckFinished(i)
           /\ ~finished(reqs[i])
           /\ ~reqs[i].to_abort
           /\ Len(reqs[i].output_ids) > 0
           /\ Len(reqs[i].output_ids) < reqs[i].sampling_params.max_new_tokens)
          => /\ reqs'[i].finished_reason.type = ExpectedFinishType(reqs[i])
             /\ ExpectedFinishType(reqs[i]) = "FINISH_MATCHED_TOKEN"
                => reqs'[i].finished_reason.matched = Last(reqs[i].output_ids)]_vars

\* C5: when every decode step appends one token to a running request and
\* check_finished follows, len(output_ids) never exceeds max_new_tokens.
C5_LengthLimitNeverExceeded ==
    \A i \in Rids :
        Len(reqs[i].output_ids) <= reqs[i].sampling_params.max_new_tokens

----------------------------------------------------------------------------
(* Claims on prefix matching (specification SpecPrefix) *)

\* C6: immediately after init_next_round_input, with or without a prefix
\* cache, fill_ids = origin_input_ids ++ output_ids and
\* extend_input_len = len(fill_ids) - len(prefix_indices).
C6_ExtendInputLen ==
    \A i \in Rids :
        op.name = "init_next_round_input" /\ op.rid = i
        => /\ reqs[i].fill_ids = reqs[i].origin_input_ids \o reqs[i].output_ids
           /\ reqs[i].extend_input_len =
                  Len(reqs[i].fill_ids) - Len(reqs[i].prefix_indices)

\* init_next_round_input has run on a request with output tokens and a
\* non-empty matched prefix.
C6_Witness ==
    \E i \in Rids :
        /\ op = Op("init_next_round_input", i, 1)
        /\ Len(reqs[i].output_ids) > 0
        /\ Len(reqs[i].prefix_indices) > 0
        /\ reqs[i].extend_input_len > 1

\* The length of the key as the specification words it
ClaimedKeyLen(r) ==
    LET n == Len(r.origin_input_ids) + Len(r.output_ids) IN
    IF r.return_logprob THEN Max(0, Min(n - 1, r.logprob_start_len))
    ELSE Max(0, n - 1)

KeyReturned(i) ==
    op = Op("adjust_max_prefix_ids", i, 0) \/ op = Op("init_next_round_input", i, 1)

\* C7: adjust_max_prefix_ids returns the first k tokens of
\* origin_input_ids ++ output_ids, k = max(0, len - 1) without input logprobs
\* and k = max(0, min(len - 1, logprob_start_len)) with them; a 10-token
\* fill_ids without logprobs gives a key of length 9.
C7_AdjustMaxPrefixIds ==
    \A i \in Rids :
        KeyReturned(i)
        => /\ match_key = SubSeq(reqs[i].origin_input_ids \o reqs[i].output_ids,
                                 1, ClaimedKeyLen(reqs[i]))
           /\ (Len(reqs[i].fill_ids) = 10 /\ ~reqs[i].return_logprob)
              => Len(match_key) = 9

\* adjust_max_prefix_ids has returned the key of a 10-token fill_ids of a
\* request without logprobs.
C7_Witness ==
    \E i \in Rids :
        /\ op = Op("adjust_max_prefix_ids", i, 0)
        /\ Len(reqs[i].fill_ids) = 10
        /\ ~reqs[i].return_logprob
        /\ Len(match_key) = 9

\* C8: after init_next_round_input against a prefix cache that returns no more
\* slot indices than the key is long, a request with a non-empty fill_ids has
\* extend_input_len >= 1, even when all its tokens are cached.
C8_AtLeastOneTokenComputed ==
    \A i \in Rids :
        (op = Op("init_next_round_input", i, 1) /\ Len(reqs[i].fill_ids) > 0)
        => reqs[i].extend_input_len >= 1

\* init_next_round_input has run on a request whose cache match covers the
\* whole key: every token but the last is cached.
C8_Witness ==
    \E i \in Rids :
        /\ op = Op("init_next_round_input", i, 1)
        /\ Len(reqs[i].fill_ids) >= 2
        /\ Len(reqs[i].prefix_indices) = Len(reqs[i].fill_ids) - 1
        /\ reqs[i].extend_input_len = 1

----------------------------------------------------------------------------
(* Claims on filter_batch and merge_batch (specification SpecBatch) *)

\* The step is running_batch.filter_batch(keep_indices=...) with as many
\* indices, none repeated, as the batch has requests
KeepsEveryRequest ==
    /\ op'.name = "filter_batch"
    /\ op'.rid = 0
    /\ op'.arg # NoneVal
    /\ Len(Val(op'.arg)) = Len(running_batch.reqs)

\* C9: filter_batch with keep_indices that list every request of the batch
\* is a no-op: the request list, every per-request array and every derived
\* scalar of the batch are unchanged (and so are the requests and the pools),
\* so that applying it again changes nothing either.
C9_FilterKeepAllIsNoOp ==
    [][KeepsEveryRequest =>
          /\ running_batch' = running_batch
          /\ UNCHANGED <<reqs, new_batch, req_to_token_pool,
                         token_to_kv_pool_allocator, tree_cache>>]_vars

\* C9 happens: keep_indices [1, 0] were given on a decoded batch of two
\* requests, whose out_cache_loc is still there
C9_Witness ==
    /\ op = Op("filter_batch", 0, Some(<<1, 0>>))
    /\ Len(running_batch.reqs) = 2
    /\ running_batch.out_cache_loc # NoneVal

\* The batch the last filter_batch or merge_batch worked on
LastBatch == IF op.rid = 0 THEN running_batch ELSE Val(new_batch)

\* Every per-request array of the batch that is present has len(reqs) entries
HasLen(a, n) == a # NoneVal => Len(Val(a)) = n

Aligned(b) ==
    /\ HasLen(b.req_pool_indices, Len(b.reqs))
    /\ HasLen(b.seq_lens, Len(b.reqs))
    /\ HasLen(b.output_ids, Len(b.reqs))
    /\ HasLen(b.top_logprobs_nums, Len(b.reqs))
    /\ HasLen(b.token_ids_logprobs, Len(b.reqs))
    /\ HasLen(b.multimodal_inputs, Len(b.reqs))

\* C10 as stated: after any filter_batch call, the empty selection included,
\* and after any merge_batch call every present per-request array has length
\* len(reqs).
C10_AlignedAfterFilterAndMerge ==
    op.name \in {"filter_batch", "merge_batch"} => Aligned(LastBatch)

\* C10, amended: after a filter_batch call that keeps at least one request
\* and after a merge_batch call on batches that hold requests, every present
\* per-request array has length len(reqs); a filter_batch call that keeps no
\* request empties the request list and leaves the arrays as they were.
C10_AlignedUnlessEmptied ==
    op.name \in {"filter_batch", "merge_batch"} =>
        \/ Aligned(LastBatch)
        \/ op.name = "filter_batch" /\ is_empty(LastBatch)

\* C10 happens: a merge padded the logprob lists of the running batch, or a
\* filter dropped a request of a batch of three
C10_Witness ==
    \/ /\ op.name = "merge_batch"
       /\ running_batch.top_logprobs_nums # NoneVal
       /\ \E i \in 1..Len(running_batch.reqs) :
             ~reqs[running_batch.reqs[i]].return_logprob
    \/ /\ op = Op("filter_batch", 0, Some(<<2, 0>>))
       /\ Len(running_batch.reqs) = 2
       /\ running_batch.top_logprobs_nums = NoneVal

\* The operations C11 is about, when they returned and left requests in the
\* batch they worked on
LeavesRequests ==
    /\ op.name \in {"prepare_for_extend", "filter_batch", "merge_batch", "retract_decode"}
    /\ err = "none"
    /\ ~is_empty(LastBatch)

\* req_pool_indices[i] == reqs[i].req_pool_idx at every position
RowsAligned(b) ==
    /\ Len(Val(b.req_pool_indices)) = Len(b.reqs)
    /\ \A i \in 1..Len(b.reqs) :
          Val(b.req_pool_indices)[i] = reqs[b.reqs[i]].req_pool_idx

\* seq_lens[i] == reqs[i].seqlen - behind at every position
SeqLensAligned(b, behind) ==
    /\ Len(Val(b.seq_lens)) = Len(b.reqs)
    /\ \A i \in 1..Len(b.reqs) :
          Val(b.seq_lens)[i] = seqlen(reqs[b.reqs[i]]) - behind

IsRetractDecode == op'.name = "retract_decode"

\* The requests of a list, as a set
Range(s) == {s[i] : i \in 1..Len(s)}

\* C12: retract_decode on a non-empty decode batch never reduces the batch to
\* zero requests: it retracts fewer requests than the batch holds, so the
\* last remaining request is never retracted, and when it returns normally
\* the batch holds at least one request, namely those it did not retract.
C12_NeverRetractsToZero ==
    [][IsRetractDecode =>
          /\ Len(op'.arg.retracted_reqs) < Len(running_batch.reqs)
          /\ err' = "none" =>
                /\ Len(running_batch'.reqs) >= 1
                /\ Range(running_batch'.reqs) =
                       Range(running_batch.reqs) \ Range(op'.arg.retracted_reqs)]_vars

\* C12 happens: two of three requests were retracted and the loop stopped
\* at the last one although the capacity was still below the headroom
C12_Witness ==
    /\ op.name = "retract_decode"
    /\ err = "none"
    /\ Len(op.arg.retracted_reqs) = 2
    /\ Len(running_batch.reqs) = 1
    /\ Last(op.arg.tests).num_reqs = 1
    /\ Last(op.arg.tests).available < Last(op.arg.tests).required

\* The last test of the loop condition the last retract_decode made
LastTest == Last(op.arg.tests)

\* C13 as stated: retract_decode stops with a fatal error exactly when only
\* one request remains and the available capacity is below the headroom
\* required for one request; in every other case it returns normally.
C13_FatalIffBelowHeadroom ==
    op.name = "retract_decode" =>
        (err # "none" <=> /\ LastTest.num_reqs = 1
                          /\ LastTest.available < LastTest.required)

\* C13, amended: retract_decode stops with a fatal error (a failed
\* assertion) exactly when only one request remains and no KV slot at all is
\* available (with two pools: one of them has none); a last request with
\* some free slot returns normally even when the capacity is below the
\* headroom required for one request.
C13_FatalIffNoSlotLeft ==
    op.name = "retract_decode" =>
        /\ err \in {"none", "AssertionError"}
        /\ err # "none" <=> /\ LastTest.num_reqs = 1
                            /\ LastTest.available <= 0

\* C13 happens: the only request left found no free slot and the assertion
\* failed
C13_Witness ==
    /\ op.name = "retract_decode"
    /\ err = "AssertionError"
    /\ LastTest.num_reqs = 1
    /\ LastTest.available = 0

\* Request v is retracted no later than request w: it has fewer output
\* tokens, or as many and an input at least as long
RetractedBefore(v, w) ==
    \/ Len(reqs[v].output_ids) < Len(reqs[w].output_ids)
    \/ /\ Len(reqs[v].output_ids) = Len(reqs[w].output_ids)
       /\ Len(reqs[v].origin_input_ids) >= Len(reqs[w].origin_input_ids)

OutputLengths(b) == [i \in 1..Len(b.reqs) |-> Len(reqs[b.reqs[i]].output_ids)]

\* C14: without speculative decoding the victims are taken in ascending
\* order of output length, ties broken towards the longer input: each victim
\* comes before the next victim and before every survivor in that order; on
\* a batch with output lengths [10, 3, 7, 1], two retractions take the
\* request with 1 output token and then the one with 3.
C14_FewestOutputTokensFirst ==
    [][IsRetractDecode /\ op'.arg.server_args.speculative_algorithm = "None" =>
          LET victims == op'.arg.retracted_reqs
          IN  /\ \A i, j \in 1..Len(victims) :
                    i < j => RetractedBefore(victims[i], victims[j])
              /\ \A v \in Range(victims) :
                    \A w \in Range(running_batch.reqs) \ Range(victims) :
                        RetractedBefore(v, w)
              /\ OutputLengths(running_batch) = <<10, 3, 7, 1>> /\ Len(victims) = 2
                    => victims = <<running_batch.reqs[4], running_batch.reqs[2]>>]_vars

\* C14 happens: of the requests with 10, 3, 7 and 1 output tokens the
\* fourth and then the second were retracted, the first and third stay
C14_Witness ==
    /\ op.name = "retract_decode"
    /\ op.arg.server_args.speculative_algorithm = "None"
    /\ Len(reqs) = 4
    /\ [i \in 1..4 |-> Len(reqs[i].output_ids)] = <<10, 3, 7, 1>>
    /\ op.arg.retracted_reqs = <<4, 2>>
    /\ running_batch.reqs = <<1, 3>>

\* C15: with speculative decoding retract_decode retracts strictly from the
\* tail: the k requests it retracts are those at the last k positions, the
\* last position first, and the requests that stay are the leading ones in
\* their original order.
C15_SpeculativeRetractsFromTail ==
    [][IsRetractDecode /\ op'.arg.server_args.speculative_algorithm # "None" =>
          LET n == Len(running_batch.reqs)
              k == Len(op'.arg.retracted_reqs)
          IN  /\ op'.arg.retracted_reqs = [i \in 1..k |-> running_batch.reqs[n - i + 1]]
              /\ err' = "none" =>
                    running_batch'.reqs = SubSeq(running_batch.reqs, 1, n - k)]_vars

\* C15 happens: the third and the second request were retracted although
\* the first one has fewer output tokens than the second
C15_Witness ==
    /\ op.name = "retract_decode"
    /\ op.arg.server_args.speculative_algorithm = "EAGLE"
    /\ op.arg.retracted_reqs = <<3, 2>>
    /\ running_batch.reqs = <<1>>
    /\ Len(reqs[1].output_ids) < Len(reqs[2].output_ids)

\* C16: retract_decode on a batch of two or more requests retracts at least
\* one request, also when the available capacity covers the required
\* headroom at entry.
C16_RetractsAtLeastOne ==
    [][IsRetractDecode /\ Len(running_batch.reqs) >= 2 =>
          Len(op'.arg.retracted_reqs) >= 1]_vars

\* C16 happens: the first test of the loop found enough capacity for the
\* whole batch, and a request was retracted all the same
C16_Witness ==
    /\ op.name = "retract_decode"
    /\ op.arg.tests[1].num_reqs >= 2
    /\ op.arg.tests[1].available >= op.arg.tests[1].required
    /\ Len(op.arg.retracted_reqs) = 1
    /\ Len(running_batch.reqs) = op.arg.tests[1].num_reqs - 1

\* The headroom num_reqs requests require under the server arguments
RequiredHeadroom(args, num_reqs) ==
    IF args.speculative_algorithm = "None"
    THEN num_reqs * RetractDecodeSteps
    ELSE num_reqs * RetractDecodeSteps
         + num_reqs * (args.speculative_eagle_topk * args.speculative_num_steps
                       + args.speculative_num_draft_tokens)

\* The available capacity: the free slots, of the scarcer pool when there
\* are two
AvailableCapacity(allocator) ==
    IF allocator.kind = "SWATokenToKVPoolAllocator"
    THEN Min(Len(allocator.free_pages), Len(allocator.free_pages) - allocator.swa_reserve)
    ELSE Len(allocator.free_pages)

\* C17: after its first retraction retract_decode retracts one more request
\* only while the available capacity (the minimum of the two pools when the
\* allocator is hybrid) is below required(n) for the n requests still in the
\* batch, required(n) being n * retract_decode_steps plus, with speculative
\* decoding, n * (topk * num_steps + num_draft_tokens); when it returns
\* normally with more than one request, the capacity is at least required of
\* the requests that stay.
C17_RetractsWhileBelowHeadroom ==
    [][IsRetractDecode =>
          LET tests == op'.arg.tests
              args == op'.arg.server_args
          IN  /\ Len(tests) = Len(op'.arg.retracted_reqs) + 1
              /\ \A k \in 1..Len(tests) :
                    /\ tests[k].num_reqs = Len(running_batch.reqs) - (k - 1)
                    /\ tests[k].required = RequiredHeadroom(args, tests[k].num_reqs)
              /\ \A k \in 2..(Len(tests) - 1) : tests[k].available < tests[k].required
              /\ Last(tests).available = AvailableCapacity(token_to_kv_pool_allocator')
              /\ err' = "none" /\ Len(running_batch'.reqs) > 1 =>
                    AvailableCapacity(token_to_kv_pool_allocator')
                        >= RequiredHeadroom(args, Len(running_batch'.reqs))]_vars

\* C17 happens: with speculative decoding two of four requests were
\* retracted, the second one because the capacity covered the decode steps
\* of three requests but not their speculative headroom, and two stay
C17_Witness ==
    /\ op.name = "retract_decode"
    /\ err = "none"
    /\ op.arg.server_args.speculative_algorithm = "EAGLE"
    /\ Len(op.arg.retracted_reqs) = 2
    /\ Len(running_batch.reqs) = 2
    /\ op.arg.tests[2].available >= 3 * RetractDecodeSteps

\* How often x occurs in the list s
Count(s, x) == Cardinality({i \in DOMAIN s : s[i] = x})

\* The KV slots the request at position i of the running batch holds in its
\* row, from column a on
SlotsOf(i, a) ==
    {req_to_token_pool.req_to_token[reqs[running_batch.reqs[i]].req_pool_idx][col] :
        col \in a..(Val(running_batch.seq_lens)[i] - 1)}

\* The slots of its row that are the request's own: all of them under a chunk
\* cache, those after the prefix it shares with the cache otherwise
OwnSlots(i) ==
    SlotsOf(i, IF tree_cache.kind \in {"ChunkCache", "SWAChunkCache"} THEN 0
               ELSE Len(reqs[running_batch.reqs[i]].prefix_indices))

\* C18: every request retract_decode retracts has its row of the
\* request-to-token table freed exactly once and its own KV slots handed back
\* to the allocator, its req_pool_idx is None, it is marked is_retracted and
\* it is no longer in the batch; every request that stays keeps its row, the
\* slots of its row and its req_pool_idx.
C18_RetractedReleasedSurvivorsKept ==
    [][IsRetractDecode =>
          \A i \in 1..Len(running_batch.reqs) :
              LET rid == running_batch.reqs[i]
                  row == reqs[rid].req_pool_idx
              IN  IF rid \in Range(op'.arg.retracted_reqs)
                  THEN /\ Count(req_to_token_pool.free_slots, row) = 0
                       /\ Count(req_to_token_pool'.free_slots, row) = 1
                       /\ \A slot \in OwnSlots(i) :
                             /\ Count(token_to_kv_pool_allocator.free_pages, slot) = 0
                             /\ Count(token_to_kv_pool_allocator'.free_pages, slot) = 1
                       /\ reqs'[rid].req_pool_idx = None
                       /\ reqs'[rid].is_retracted
                       /\ ~InBatch(rid, running_batch')
                  ELSE /\ reqs'[rid] = reqs[rid]
                       /\ Count(req_to_token_pool'.free_slots, row) = 0
                       /\ req_to_token_pool'.req_to_token[row] =
                              req_to_token_pool.req_to_token[row]
                       /\ \A slot \in SlotsOf(i, 0) :
                             Count(token_to_kv_pool_allocator'.free_pages, slot) = 0
                       /\ err' = "none" =>
                             /\ InBatch(rid, running_batch')
                             /\ Val(running_batch'.req_pool_indices)[
                                    Pos(running_batch'.reqs, rid)] = row]_vars

\* C18 happens: under the radix cache the third and the first of three
\* requests were retracted, their two rows are free, the second one stays
C18_Witness ==
    /\ op.name = "retract_decode"
    /\ err = "none"
    /\ tree_cache.kind = "RadixCache"
    /\ op.arg.retracted_reqs = <<3, 1>>
    /\ running_batch.reqs = <<2>>
    /\ Len(req_to_token_pool.free_slots) = 2
    /\ reqs[3].is_retracted /\ reqs[3].req_pool_idx = None
    /\ reqs[2].req_pool_idx # None

\* The retracted requests whose last_node lies at or below node d, each of
\* which holds one lock on d
LocksReleased(victims, d) ==
    Cardinality({k \in 1..Len(victims) : reqs[victims[k]].last_node >= d})

\* C19: under a prefix cache that supports eviction, retract_decode
\* decrements the lock reference of each retracted request's last_node (and
\* of the nodes above it) exactly once, with the node the request still
\* refers to, and then clears the reference; the locks of the requests that
\* stay are untouched, so no node they lock is evicted.
C19_LockReleasedOncePerRetracted ==
    [][IsRetractDecode /\ tree_cache.kind \in {"RadixCache", "SWARadixCache"} =>
          LET victims == op'.arg.retracted_reqs
          IN  /\ \A d \in DOMAIN tree_cache.lock_ref :
                    IF d \in DOMAIN tree_cache'.lock_ref
                    THEN tree_cache'.lock_ref[d] =
                             tree_cache.lock_ref[d] - LocksReleased(victims, d)
                    ELSE tree_cache.lock_ref[d] - LocksReleased(victims, d) = 0
              /\ \A v \in Range(victims) : reqs'[v].last_node = None
              /\ \A w \in Range(running_batch.reqs) \ Range(victims) :
                    /\ reqs'[w].last_node = reqs[w].last_node
                    /\ \A d \in 1..reqs[w].last_node :
                          /\ d \in DOMAIN tree_cache'.lock_ref
                          /\ tree_cache'.lock_ref[d] >= 1]_vars

\* C19 happens: of two requests that lock the first node of the cache the
\* second was retracted and its reference cleared; the lock of the first
\* one is the only one left on the node
C19_Witness ==
    /\ op.name = "retract_decode"
    /\ err = "none"
    /\ tree_cache.kind = "RadixCache"
    /\ op.arg.retracted_reqs = <<2>>
    /\ running_batch.reqs = <<1>>
    /\ Len(reqs[2].origin_input_ids) = 2
    /\ reqs[2].last_node = None
    /\ reqs[1].last_node = 1
    /\ tree_cache.lock_ref[1] = 1

\* The operations that allocate KV slots, or test whether they can
IsAllocation ==
    op.name \in {"prepare_for_extend", "prepare_for_decode", "check_decode_mem"}

\* The call asked the cache to evict
Asked(call) == call.asked # None

\* What is missing in a pool for num_tokens
Shortfall(num_tokens, available) == Max(0, num_tokens - available)

\* C20: before every KV-slot allocation the prefix cache is asked to evict
\* only when the allocator's free count (of one of the pools when there are
\* two) is below the requested amount, and then it is asked to evict exactly
\* the shortfall, requested amount minus free count; with 3 free slots and
\* a decode step of page size 1 that needs 3 slots no eviction is invoked.
C20_EvictsExactlyTheShortfall ==
    IsAllocation =>
        \A k \in 1..Len(evictions) :
            LET call == evictions[k]
            IN  /\ Asked(call) =>
                      \/ call.available < call.num_tokens
                      \/ /\ call.swa_available # None
                         /\ call.swa_available < call.num_tokens
                /\ Asked(call) =>
                      /\ call.asked = Shortfall(call.num_tokens, call.available)
                      /\ call.swa_available # None =>
                            call.swa_asked = Shortfall(call.num_tokens, call.swa_available)
                /\ call.num_tokens = 3 /\ call.available = 3 /\ call.swa_available = None
                      => ~Asked(call)

----------------------------------------------------------------------------
(* Claims on the allocation helpers (specification SpecAlloc) *)

IsTokenAllocation ==
    op.name \in {"alloc_token_slots", "alloc_paged_token_slots_extend",
                 "alloc_paged_token_slots_decode"}

Distinct(s) == \A i, j \in 1..Len(s) : s[i] = s[j] => i = j

\* C21: when the allocator returns no slots after the eviction attempt,
\* alloc_token_slots, alloc_paged_token_slots_extend and
\* alloc_paged_token_slots_decode raise a RuntimeError instead of returning,
\* and they return the allocated slot indices, one per requested token,
\* otherwise; alloc_req_slots raises likewise when the request-slot pool
\* cannot supply the requested number of rows, and returns the rows otherwise.
C21_RaisesWhenNothingAllocated ==
    [][ /\ IsTokenAllocation' =>
              /\ Len(evictions') = 1
              /\ (err' = "RuntimeError") = (op'.arg.returned = NoneVal)
              /\ err' \in {"RuntimeError", "none"}
              /\ err' = "RuntimeError" =>
                    /\ tree_cache' = evict_tree_cache_if_needed(
                           token_to_kv_pool_allocator, tree_cache,
                           evictions'[1].num_tokens).cache
                    /\ token_to_kv_pool_allocator' = evict_tree_cache_if_needed(
                           token_to_kv_pool_allocator, tree_cache,
                           evictions'[1].num_tokens).allocator
                    /\ op'.name = "alloc_token_slots" =>
                          available_size(token_to_kv_pool_allocator') < op'.arg.num
              /\ err' = "none" =>
                    /\ Len(Val(op'.arg.returned)) = op'.arg.num
                    /\ Distinct(Val(op'.arg.returned))
                    /\ \A k \in 1..op'.arg.num :
                          Val(op'.arg.returned)[k] \div
                              token_to_kv_pool_allocator.page_size
                          \notin Range(token_to_kv_pool_allocator'.free_pages)
        /\ op'.name = "alloc_req_slots" =>
              /\ (err' = "RuntimeError") =
                     (op'.arg.num > Len(req_to_token_pool.free_slots))
              /\ err' = "RuntimeError" =>
                    op'.arg.returned = NoneVal /\ UNCHANGED req_to_token_pool
              /\ err' # "RuntimeError" =>
                    /\ err' = "none"
                    /\ Len(Val(op'.arg.returned)) = op'.arg.num
                    /\ Distinct(Val(op'.arg.returned))
                    /\ \A k \in 1..op'.arg.num :
                          /\ Val(op'.arg.returned)[k]
                                 \in Range(req_to_token_pool.free_slots)
                          /\ Val(op'.arg.returned)[k]
                                 \notin Range(req_to_token_pool'.free_slots)
      ]_vars

\* Each helper has raised on an exhausted pool after the cache was asked to
\* evict: here the paged decode allocation, with one free page for two
\* requests that both start a new page
C21_Witness ==
    /\ op.name = "alloc_paged_token_slots_decode"
    /\ err = "RuntimeError"
    /\ token_to_kv_pool_allocator.page_size = 2
    /\ Len(token_to_kv_pool_allocator.free_pages) = 1
    /\ op.arg.num = 2

----------------------------------------------------------------------------
(* Claims on prepare_for_decode (specification SpecRetract) *)

\* a call of prepare_for_decode that returned
DecodePrepared == op'.name = "prepare_for_decode" /\ err' = "none"

\* what the claim says of a decode step of bs requests
DecodeStepOfOne ==
    LET bs == Len(running_batch.reqs)
    IN  /\ running_batch'.reqs = running_batch.reqs
        /\ Len(Val(running_batch'.seq_lens)) = bs
        /\ \A i \in 1..bs :
              Val(running_batch'.seq_lens)[i] = Val(running_batch.seq_lens)[i] + 1
        /\ running_batch'.seq_lens_sum = running_batch.seq_lens_sum + bs
        /\ running_batch'.input_ids = running_batch.output_ids
        /\ token_to_kv_pool_allocator.page_size = 1 =>
              /\ Len(evictions') = 1
              /\ evictions'[1].num_tokens = bs
              /\ Len(Val(running_batch'.out_cache_loc)) = bs

\* C22 as stated: every prepare_for_decode increases the sequence length of
\* each running request in seq_lens by exactly 1, increases seq_lens_sum by
\* the batch size, takes the previous step's output ids as the next input ids
\* and requests exactly one new KV slot per request when the page size is 1.
C22_DecodeAdvancesEveryRequest ==
    [][DecodePrepared => DecodeStepOfOne]_vars

\* C22: prepare_for_decode does so unless the speculative algorithm is EAGLE;
\* with EAGLE it sets the forward mode and returns, leaving seq_lens,
\* seq_lens_sum, input_ids, out_cache_loc and the pools as they are.
C22_DecodeAdvancesUnlessEagle ==
    [][DecodePrepared =>
          /\ running_batch'.forward_mode = "DECODE"
          /\ IF global_server_args.speculative_algorithm = "EAGLE"
             THEN /\ running_batch' = [running_batch EXCEPT !.forward_mode = "DECODE"]
                  /\ UNCHANGED <<req_to_token_pool, token_to_kv_pool_allocator,
                                 tree_cache>>
             ELSE DecodeStepOfOne
      ]_vars

\* a decode step of two requests was prepared without speculative decoding
C22_Witness ==
    /\ op.name = "prepare_for_decode"
    /\ err = "none"
    /\ global_server_args.speculative_algorithm = "None"
    /\ Len(running_batch.reqs) = 2
    /\ running_batch.input_ids # NoneVal
    /\ Len(Val(running_batch.out_cache_loc)) = 2

\* the column of row that the decode step writes for the request at position
\* i of the batch: its new sequence length minus one
DecodeColumn(i) == Val(running_batch'.seq_lens)[i] - 1

----------------------------------------------------------------------------
(* Claims on prepare_for_extend (specification SpecBatch) *)

\* a call of prepare_for_extend that returned
ExtendPrepared == op'.name = "prepare_for_extend" /\ err' = "none"

\* the slots the allocator can hand out: the free ones and those the cache
\* can give up
Allocatable ==
    Range(token_to_kv_pool_allocator.free_pages) \cup Range(tree_cache.slots)

\* C24: prepare_for_extend gives each request i exactly extend_input_len_i
\* newly allocated KV slots (extend_input_len_i = seq_len_i - prefix_len_i,
\* total = extend_num_tokens) and records them in batch order: row
\* req_pool_idx_i holds the request's prefix_indices at columns
\* [0, prefix_len_i) and the i-th consecutive segment of out_cache_loc at
\* columns [prefix_len_i, seq_len_i).
C24_ExtendSlotsInBatchOrder ==
    [][ExtendPrepared =>
          LET b == Val(new_batch')
              bs == Len(b.reqs)
              r(i) == reqs'[b.reqs[i]]
              seq_lens == Val(b.seq_lens)
              prefix_lens == Val(b.prefix_lens)
              out_cache_loc == Val(b.out_cache_loc)
              start(i) == SumSeq([j \in 1..(i - 1) |-> r(j).extend_input_len])
          IN  /\ bs > 0
              /\ \A i \in 1..bs :
                    /\ r(i).extend_input_len = seq_lens[i] - prefix_lens[i]
                    /\ seq_lens[i] = Len(r(i).fill_ids)
                    /\ prefix_lens[i] = Len(r(i).prefix_indices)
                    /\ Val(b.extend_lens)[i] = r(i).extend_input_len
                    /\ Val(b.req_pool_indices)[i] = r(i).req_pool_idx
              /\ b.extend_num_tokens = start(bs + 1)
              /\ Len(out_cache_loc) = b.extend_num_tokens
              /\ Distinct(out_cache_loc)
              /\ \A k \in 1..Len(out_cache_loc) :
                    /\ out_cache_loc[k] \in Allocatable
                    /\ out_cache_loc[k] \notin Range(token_to_kv_pool_allocator'.free_pages)
                    /\ out_cache_loc[k] \notin Range(tree_cache'.slots)
              /\ \A i \in 1..bs :
                    LET row == req_to_token_pool'.req_to_token[r(i).req_pool_idx]
                    IN  /\ \A col \in 0..(prefix_lens[i] - 1) :
                              row[col] = r(i).prefix_indices[col + 1]
                        /\ \A col \in prefix_lens[i]..(seq_lens[i] - 1) :
                              row[col] = out_cache_loc[start(i) + col - prefix_lens[i] + 1]
      ]_vars

\* two requests were prefilled together, the first with a prefix taken from
\* the cache, and the row of the second holds the second segment
C24_Witness ==
    /\ op.name = "prepare_for_extend"
    /\ err = "none"
    /\ Len(Val(new_batch).reqs) = 2
    /\ Val(Val(new_batch).prefix_lens)[1] > 0
    /\ Val(Val(new_batch).extend_lens)[1] > 0
    /\ Val(Val(new_batch).extend_lens)[2] > 0
    /\ req_to_token_pool.req_to_token[Val(Val(new_batch).req_pool_indices)[2]]
           [Val(Val(new_batch).prefix_lens)[2]]
         = Val(Val(new_batch).out_cache_loc)[Val(Val(new_batch).extend_lens)[1] + 1]

----------------------------------------------------------------------------
(* Claims on the rows of the Request-Slot Pool (specification SpecChunk) *)

\* the row is allocated: it is not in the free list
Allocated(row) == row \notin Range(req_to_token_pool.free_slots)

\* the request holds the row: the row is allocated and is the req_pool_idx of
\* the request, which is not finished (a finished request keeps the index of
\* the row that was freed with it)
Holds(rid, row) ==
    /\ reqs[rid].req_pool_idx = row
    /\ Allocated(row)
    /\ ~finished(reqs[rid])

----------------------------------------------------------------------------
(* Claims on the logprob arrays of merge_batch (specification SpecMerge) *)

\* C26: merge_batch keeps the logprob-count arrays positionally aligned: when
\* only the other batch has return_logprob, the merged top_logprobs_nums is
\* len(self.reqs) zeros followed by other's values in order (token_ids_logprobs:
\* that many absent entries followed by other's); when only self has it,
\* self's values are followed by len(other.reqs) zeros; when both have it the
\* arrays are concatenated; the merged return_logprob is the OR of the two.
\* Merging a 2-request logprob batch into a 3-request non-logprob batch gives
\* length 5 with the first 3 entries 0.
C26_MergedLogprobArraysAligned ==
    [][op'.name = "merge_batch" =>
          LET self == running_batch
              other == Val(new_batch)
              merged == running_batch'
              n == Len(self.reqs)
              k == Len(other.reqs)
          IN  /\ merged.return_logprob = (self.return_logprob \/ other.return_logprob)
              /\ ~self.return_logprob /\ other.return_logprob =>
                    /\ Val(merged.top_logprobs_nums)
                           = [i \in 1..n |-> 0] \o Val(other.top_logprobs_nums)
                    /\ Val(merged.token_ids_logprobs)
                           = [i \in 1..n |-> NoneVal] \o Val(other.token_ids_logprobs)
              /\ self.return_logprob /\ ~other.return_logprob =>
                    /\ Val(merged.top_logprobs_nums)
                           = Val(self.top_logprobs_nums) \o [i \in 1..k |-> 0]
                    /\ Val(merged.token_ids_logprobs)
                           = Val(self.token_ids_logprobs) \o [i \in 1..k |-> NoneVal]
              /\ self.return_logprob /\ other.return_logprob =>
                    /\ Val(merged.top_logprobs_nums)
                           = Val(self.top_logprobs_nums) \o Val(other.top_logprobs_nums)
                    /\ Val(merged.token_ids_logprobs)
                           = Val(self.token_ids_logprobs) \o Val(other.token_ids_logprobs)
              /\ merged.return_logprob =>
                    /\ Len(Val(merged.top_logprobs_nums)) = Len(merged.reqs)
                    /\ Len(Val(merged.token_ids_logprobs)) = Len(merged.reqs)
                    /\ \A i \in 1..Len(merged.reqs) :
                          /\ Val(merged.top_logprobs_nums)[i]
                                 = reqs[merged.reqs[i]].top_logprobs_num
                          /\ Val(merged.token_ids_logprobs)[i]
                                 = reqs[merged.reqs[i]].token_ids_logprob
              /\ n = 3 /\ k = 2 /\ ~self.return_logprob /\ other.return_logprob =>
                    /\ Len(Val(merged.top_logprobs_nums)) = 5
                    /\ \A i \in 1..3 : Val(merged.top_logprobs_nums)[i] = 0
      ]_vars

\* a logprob batch of two requests was merged into a batch of three without
\* logprobs
C26_Witness ==
    /\ op.name = "merge_batch"
    /\ Len(running_batch.reqs) = 5
    /\ ~reqs[1].return_logprob
    /\ reqs[5].return_logprob
    /\ Val(running_batch.top_logprobs_nums)[4] > 0
    /\ Val(running_batch.top_logprobs_nums)[5] > 0

----------------------------------------------------------------------------
(* Claims on the Worker Transfer Object (specification SpecMerge) *)

\* C27: every call of get_model_worker_batch, on any batch, returns a Worker
\* Transfer Object whose batch id is strictly greater than every batch id
\* issued before, so no two transfer objects ever share an id, across all
\* batches and rounds.
C27_BatchIdsStrictlyIncrease ==
    [][op'.name = "get_model_worker_batch" =>
          /\ Len(model_worker_batches') = Len(model_worker_batches) + 1
          /\ \A i \in 1..Len(model_worker_batches) :
                /\ model_worker_batches'[i] = model_worker_batches[i]
                /\ model_worker_batches'[Len(model_worker_batches')].bid
                       > model_worker_batches[i].bid
          /\ \A i, j \in 1..Len(model_worker_batches') :
                model_worker_batches'[i].bid = model_worker_batches'[j].bid => i = j
      ]_vars

\* three transfer objects were issued, the first for a prefill batch and the
\* last for a decode step of the merged batch
C27_Witness ==
    /\ Len(model_worker_batches) = 3
    /\ model_worker_batches[1].forward_mode = "EXTEND"
    /\ model_worker_batches[3].forward_mode = "DECODE"
    /\ Len(Val(model_worker_batches[3].seq_lens))
           > Len(Val(model_worker_batches[1].seq_lens))
    /\ model_worker_batches[3].bid = 3

----------------------------------------------------------------------------
(* Claims on asynchronous abort (specification Spec) *)

Marked(r) == r.to_abort /\ ~finished(r)

\* C28: a request can be marked for abort at any point of a round, also
\* between the append of a sampled token and its check_finished; the marking
\* step leaves finished_reason and the batch state unchanged, and a marked
\* request that is not finished takes the Abort reason of the mark at its next
\* check_finished call and at no other step: every other step leaves it
\* running, except set_finish_with_abort, whose reason is that of a bad
\* request.
C28_AbortTakesEffectAtCheckFinished ==
    [][\A i \in Rids :
          /\ (op' = Op("to_abort", i, 0))
             => /\ reqs'[i] = [reqs[i] EXCEPT !.to_abort = TRUE]
                /\ UNCHANGED bvars
          /\ Marked(reqs[i])
             => IF IsCheckFinished(i)
                THEN reqs'[i].finished_reason =
                         FINISH_ABORT(reqs[i].to_abort_message, "None", "None")
                ELSE IF op' = Op("set_finish_with_abort", i, 0)
                THEN reqs'[i].finished_reason.status_code = "BAD_REQUEST"
                ELSE ~finished(reqs'[i])]_vars

\* A request has been marked for abort after a token was appended and before
\* its check_finished: it is still running, although its output has reached
\* max_new_tokens.
C28_Witness ==
    \E i \in Rids :
        /\ op = Op("to_abort", i, 0)
        /\ pc[i] = "appended"
        /\ Marked(reqs[i])
        /\ Len(reqs[i].output_ids) >= reqs[i].sampling_params.max_new_tokens

----------------------------------------------------------------------------
(* Claims on reset_for_retract (specification SpecRetract) *)

\* What the retraction of a request clears and what it keeps: r0 before,
\* r1 after
RetractCleared(r0, r1) ==
    /\ r1.prefix_indices = << >>
    /\ r1.extend_input_len = 0
    /\ r1.extend_logprob_start_len = 0
    /\ r1.is_chunked = 0
    /\ r1.already_computed = 0
    /\ r1.last_node = None
    /\ r1.req_pool_idx = None
    /\ r1.is_retracted
    /\ r1.output_ids = r0.output_ids
    /\ r1.origin_input_ids = r0.origin_input_ids
    /\ r1.finished_reason = r0.finished_reason
    /\ r1.sampling_params = r0.sampling_params

\* C29 as stated: on every request that retract_decode retracts,
\* reset_for_retract empties prefix_indices, sets extend_input_len,
\* extend_logprob_start_len, is_chunked, already_computed and the cached-token
\* counter to 0, last_node and req_pool_idx to none, sets is_retracted, and
\* leaves output_ids, origin_input_ids, finished_reason and the sampling
\* configuration unchanged.
C29_ResetClearsCachedTokens ==
    [][IsRetractDecode =>
          \A v \in Range(op'.arg.retracted_reqs) :
              /\ RetractCleared(reqs[v], reqs'[v])
              /\ reqs'[v].cached_tokens = 0]_vars

\* C29, amended: as stated for the fields other than the cached-token
\* counter; cached_tokens is left unchanged, like output_ids, origin_input_ids,
\* finished_reason and the sampling configuration.
C29_ResetKeepsCachedTokens ==
    [][IsRetractDecode =>
          \A v \in Range(op'.arg.retracted_reqs) :
              /\ RetractCleared(reqs[v], reqs'[v])
              /\ reqs'[v].cached_tokens = reqs[v].cached_tokens]_vars

\* C29 happens: a request that was prefilled on a cached prefix and has
\* decoded a token was retracted; its row and prefix are gone and its
\* count of cached tokens is still positive
C29_Witness ==
    /\ op.name = "retract_decode"
    /\ \E v \in Range(op.arg.retracted_reqs) :
          /\ reqs[v].is_retracted
          /\ reqs[v].req_pool_idx = None
          /\ reqs[v].prefix_indices = << >>
          /\ reqs[v].already_computed = 0
          /\ reqs[v].cached_tokens > 0
          /\ Len(reqs[v].output_ids) > 0

----------------------------------------------------------------------------
(* Claims on the vocabulary check (specification Spec) *)

\* check_finished on request r gets as far as the vocabulary check: r is
\* running, not marked for abort, below max_new_tokens, its grammar has not
\* terminated and its last token matched no stop token
ReachesVocabularyCheck(r) ==
    /\ ~finished(r)
    /\ ~r.to_abort
    /\ Len(r.output_ids) > 0
    /\ Len(r.output_ids) < r.sampling_params.max_new_tokens
    /\ ~GrammarTerminated(r)
    /\ r.sampling_params.ignore_eos \/ Last(r.output_ids) \notin StopTokenIds(r)

\* C30: whenever check_finished reaches the vocabulary check, a last output
\* token with id < 0 or id >= vocab_size finishes the request with a
\* MatchedStr reason.
C30_OutOfVocabularyFinishes ==
    [][\A i \in Rids :
          (/\ IsCheckFinished(i)
           /\ ReachesVocabularyCheck(reqs[i])
           /\ OutOfVocabulary(reqs[i], Last(reqs[i].output_ids)))
          => reqs'[i].finished_reason.type = "FINISH_MATCHED_STR"]_vars

\* check_finished has just finished request i on the vocabulary check
FinishedOnVocabularyCheck(i) ==
    /\ IsCheckFinished(i)
    /\ ~finished(reqs[i])
    /\ reqs'[i].finished_reason = FINISH_MATCHED_STR(<<"NaN happened">>)

\* C31: when check_finished finishes a request because its last output token
\* is out of the vocabulary range, the last element of output_ids is
\* afterwards a member of the request's stop-token or eos set, never the
\* out-of-range id, and no other element of output_ids is changed.
C31_InvalidTokenReplacedByStopToken ==
    [][\A i \in Rids :
          FinishedOnVocabularyCheck(i) =>
              LET before == reqs[i].output_ids
                  after == reqs'[i].output_ids
              IN  /\ Len(after) = Len(before)
                  /\ \A k \in 1..(Len(before) - 1) : after[k] = before[k]
                  /\ Last(after) \in reqs[i].sampling_params.stop_token_ids
                                     \cup reqs[i].eos_token_ids
                  /\ ~OutOfVocabulary(reqs[i], Last(after))]_vars

----------------------------------------------------------------------------
(* Claims on filter_batch without keep_indices (specification SpecChunk) *)

\* The requests of list s that are not finished and not in the set excluded,
\* in the order of s
UnfinishedOf(s, excluded) ==
    SelectSeq(s, LAMBDA rid : ~finished(reqs[rid]) /\ rid \notin excluded)

\* C32: filter_batch called without keep_indices keeps exactly the requests
\* that are not finished and are not among the chunked requests to exclude,
\* in their original relative order; afterwards no finished request remains
\* in the batch.
C32_FilterKeepsUnfinished ==
    [][/\ op' = Op("filter_batch", 0, NoneVal) =>
             /\ running_batch'.reqs = UnfinishedOf(running_batch.reqs, {})
             /\ \A rid \in Range(running_batch'.reqs) : ~finished(reqs'[rid])
       /\ op' = Op("filter_batch", 1, NoneVal) =>
             /\ Val(new_batch').reqs =
                    UnfinishedOf(Val(new_batch).reqs, {Val(new_batch).chunked_req})
             /\ \A rid \in Range(Val(new_batch').reqs) : ~finished(reqs'[rid])]_vars

\* C32 happens: the filter of a prefill batch has dropped the chunked request
\* and kept another one
C32_Witness ==
    /\ op = Op("filter_batch", 1, NoneVal)
    /\ Val(new_batch).chunked_req # None
    /\ Val(new_batch).chunked_req \notin Range(Val(new_batch).reqs)
    /\ Len(Val(new_batch).reqs) >= 1

----------------------------------------------------------------------------
(* Claims on mixed batches (specification SpecMerge) *)

\* C33: mix_with_running turns the batch into a MIXED batch in which every
\* request of the running decode batch is appended, in order, as a
\* single-token extend: extend_input_len = 1 and an extend_lens entry of 1
\* each, extend_num_tokens grows by the number of running requests, and the
\* appended prefix length is len(origin_input_ids) + len(output_ids) + delta
\* with delta = 0 under overlapped scheduling and -1 otherwise.
C33_MixAppendsSingleTokenExtends ==
    op.name = "mix_with_running" =>
        LET self == op.arg.self
            running == op.arg.running_batch
            mixed == Val(new_batch)
            n == Len(self.reqs)
            running_bs == Len(running.reqs)
            delta == IF self.enable_overlap THEN 0 ELSE 0 - 1
        IN  /\ mixed.forward_mode = "MIXED"
            /\ mixed.reqs = self.reqs \o running.reqs
            /\ mixed.extend_num_tokens = self.extend_num_tokens + running_bs
            /\ Len(Val(mixed.extend_lens)) = n + running_bs
            /\ Len(Val(mixed.prefix_lens)) = n + running_bs
            /\ \A i \in 1..n :
                  /\ Val(mixed.extend_lens)[i] = Val(self.extend_lens)[i]
                  /\ Val(mixed.prefix_lens)[i] = Val(self.prefix_lens)[i]
            /\ \A i \in 1..running_bs :
                  LET r == reqs[running.reqs[i]]
                  IN  /\ r.extend_input_len = 1
                      /\ Val(mixed.extend_lens)[n + i] = 1
                      /\ Val(mixed.prefix_lens)[n + i] =
                             Len(r.origin_input_ids) + Len(r.output_ids) + delta

\* C33 happens: three decoding requests were mixed into a prefill batch of
\* two under overlapped scheduling
C33_Witness ==
    /\ op.name = "mix_with_running"
    /\ op.arg.self.enable_overlap
    /\ Len(op.arg.self.reqs) = 2
    /\ Len(op.arg.running_batch.reqs) = 3
    /\ Val(new_batch).forward_mode = "MIXED"
    /\ Val(new_batch).extend_num_tokens = op.arg.self.extend_num_tokens + 3

----------------------------------------------------------------------------
(* Claims on the host copy of a retracted request (specification SpecRetract) *)

\* C34: in disaggregated decode mode retract_decode copies the KV cache of
\* every retracted request to host memory before it frees the request's KV
\* slots and its request-slot row: at the time of the copy none of the slots
\* it reads and not the row are free, the copy covers the seqlen - 1 slots of
\* the row, and the row is free when the call is over.
C34_OffloadBeforeFree ==
    (op.name = "retract_decode" /\ op.arg.server_args.disaggregation_mode = "decode") =>
        /\ [k \in 1..Len(op.arg.offloads) |-> op.arg.offloads[k].rid]
               = op.arg.retracted_reqs
        /\ \A k \in 1..Len(op.arg.offloads) :
              LET copy == op.arg.offloads[k]
              IN  /\ reqs[copy.rid].kv_cache_cpu = Some(copy.token_indices)
                  /\ Len(copy.token_indices) = seqlen(reqs[copy.rid]) - 1
                  /\ Range(copy.token_indices) \cap Range(copy.free_pages) = {}
                  /\ copy.row \notin Range(copy.free_slots)
                  /\ copy.row \in Range(req_to_token_pool.free_slots)

\* C34 happens: two requests were retracted in disaggregated decode mode, and
\* the slots copied for the second one are free after the call
C34_Witness ==
    /\ op.name = "retract_decode"
    /\ op.arg.server_args.disaggregation_mode = "decode"
    /\ Len(op.arg.offloads) = 2
    /\ Len(op.arg.offloads[2].token_indices) >= 2
    /\ Range(op.arg.offloads[2].token_indices)
           \subseteq Range(token_to_kv_pool_allocator.free_pages)

----------------------------------------------------------------------------
(* Claims on the Worker Transfer Object as a snapshot (specification SpecMerge) *)

\* A step that prepares the next round on a batch
PreparesNextRound == op'.name \in {"prepare_for_decode", "filter_batch", "merge_batch"}

\* What object k issued before the step carries is the same after it
CarriesSame(k) ==
    /\ model_worker_batches'[k].input_ids = model_worker_batches[k].input_ids
    /\ model_worker_batches'[k].out_cache_loc = model_worker_batches[k].out_cache_loc
    /\ model_worker_batches'[k].req_pool_indices = model_worker_batches[k].req_pool_indices

\* C35 as stated: once get_model_worker_batch has issued a Worker Transfer
\* Object, preparing the next round on the same batch (prepare_for_decode,
\* filter_batch, merge_batch) does not change the seq_lens, input ids or cache
\* locations the object carries, under overlapped and under synchronous
\* scheduling.
C35_IssuedObjectNeverChanges ==
    [][PreparesNextRound =>
          /\ Len(model_worker_batches') = Len(model_worker_batches)
          /\ \A k \in 1..Len(model_worker_batches) :
                /\ CarriesSame(k)
                /\ model_worker_batches'[k].seq_lens = model_worker_batches[k].seq_lens]_vars

\* C35, amended: under overlapped scheduling no such step changes the
\* seq_lens, input ids or cache locations an issued object carries; under
\* synchronous scheduling filter_batch and merge_batch do not change them
\* either, and prepare_for_decode leaves input ids and cache locations but
\* adds 1 in place to the seq_lens tensor it shares with the object last
\* issued from that batch, when the batch still holds that tensor.
C35_IssuedObjectChangesOnlyInPlace ==
    [][PreparesNextRound =>
          /\ Len(model_worker_batches') = Len(model_worker_batches)
          /\ \A k \in 1..Len(model_worker_batches) :
                /\ CarriesSame(k)
                /\ IF /\ op'.name = "prepare_for_decode"
                      /\ ~running_batch.enable_overlap
                      /\ model_worker_batches[k].seq_lens_of = "running"
                   THEN model_worker_batches'[k].seq_lens =
                            Some([i \in 1..Len(Val(model_worker_batches[k].seq_lens)) |->
                                     Val(model_worker_batches[k].seq_lens)[i] + 1])
                   ELSE model_worker_batches'[k].seq_lens =
                            model_worker_batches[k].seq_lens]_vars

\* C35 happens: under overlapped scheduling the batch was prepared for its
\* next decode step and holds longer sequences than the object issued from
\* it for the round before, which still carries the old ones
C35_Witness ==
    /\ op.name = "prepare_for_decode"
    /\ running_batch.enable_overlap
    /\ \E k \in 1..Len(model_worker_batches) :
          /\ model_worker_batches[k].req_pool_indices = running_batch.req_pool_indices
          /\ Len(Val(running_batch.seq_lens)) >= 2
          /\ \A i \in 1..Len(Val(running_batch.seq_lens)) :
                Val(model_worker_batches[k].seq_lens)[i] < Val(running_batch.seq_lens)[i]

----------------------------------------------------------------------------
(* Claims on the order of the survivors of a retraction (specification SpecRetract) *)

\* The requests of the batch that the retraction of this step leaves, in
\* the order they have before it
SurvivorsInOldOrder ==
    SelectSeq(running_batch.reqs, LAMBDA rid : rid \notin Range(op'.arg.retracted_reqs))

\* C36 as stated: the requests that survive a retraction appear in the batch
\* in the same relative order they had before the call, with and without
\* speculative decoding.
C36_SurvivorsKeepOrder ==
    [][IsRetractDecode /\ err' = "none" =>
          running_batch'.reqs = SurvivorsInOldOrder]_vars

\* C36, amended: with speculative decoding the survivors keep their relative
\* order; without it they appear in the order of the retraction sort, by
\* descending number of output tokens, then by ascending input length, and in
\* their previous order only among requests equal in both.
C36_SurvivorsInSortOrder ==
    [][IsRetractDecode /\ err' = "none" =>
          /\ Range(running_batch'.reqs) = Range(SurvivorsInOldOrder)
          /\ Len(running_batch'.reqs) = Len(SurvivorsInOldOrder)
          /\ IF op'.arg.server_args.speculative_algorithm # "None"
             THEN running_batch'.reqs = SurvivorsInOldOrder
             ELSE \A i, j \in 1..Len(running_batch'.reqs) : i < j =>
                      LET v == running_batch'.reqs[i]
                          w == running_batch'.reqs[j]
                          outs(x) == Len(reqs[x].output_ids)
                          ins(x) == Len(reqs[x].origin_input_ids)
                      IN  \/ outs(v) > outs(w)
                          \/ outs(v) = outs(w) /\ ins(v) < ins(w)
                          \/ /\ outs(v) = outs(w) /\ ins(v) = ins(w)
                             /\ Pos(running_batch.reqs, v) < Pos(running_batch.reqs, w)
      ]_vars

\* C36 happens: without speculative decoding the third of three requests was
\* retracted and the second one, which has more output tokens, now stands
\* before the first
C36_Witness ==
    /\ op.name = "retract_decode"
    /\ err = "none"
    /\ op.arg.server_args.speculative_algorithm = "None"
    /\ op.arg.retracted_reqs = <<3>>
    /\ running_batch.reqs = <<2, 1>>
    /\ Len(reqs[2].output_ids) > Len(reqs[1].output_ids)

----------------------------------------------------------------------------
(* Claims on seq_lens_sum (specification SpecEncoder) *)

\* The batch the last operation was called on
OpBatch == IF op.rid = 1 /\ new_batch # NoneVal THEN Val(new_batch) ELSE running_batch

\* The operation that has just returned is one of those that set seq_lens_sum
SetsSeqLensSum ==
    /\ op.name \in {"prepare_for_extend", "prepare_for_decode", "prepare_for_idle",
                    "filter_batch", "merge_batch"}
    /\ err = "none"

\* C37: after prepare_for_extend, prepare_for_decode, prepare_for_idle and
\* every filter_batch or merge_batch, seq_lens_sum equals the sum of the
\* entries of seq_lens, for plain and for encoder-decoder models and also
\* when a filter keeps no request.
C37_SeqLensSumIsSum ==
    SetsSeqLensSum => OpBatch.seq_lens_sum = SumSeq(Val(OpBatch.seq_lens))

----------------------------------------------------------------------------
(* Claims on the slots a retraction frees (specification SpecPaged) *)

\* The slots retract_decode and the evictions it asked for have freed, in
\* the order they were freed
FreedSlots ==
    Flatten([k \in 1..Len(op.arg.frees) |->
                op.arg.frees[k].token_indices \o op.arg.frees[k].evicted])

\* The slots of the row of a retracted request at the columns from .. to - 1
RowSlots(f, from, to) == {f.row[col] : col \in from..(to - 1)}

\* The start of the page in which the prefix of a retracted request ends
PrefixPageStart(f) ==
    (f.prefix_len \div op.arg.server_args.page_size) * op.arg.server_args.page_size

\* C38 as stated: retract_decode never hands to the allocator's free a KV
\* slot of the cached prefix of the retracted request (a slot at a row column
\* below len(prefix_indices)) when the prefix cache supports eviction, for
\* every prefix length and page size; and no KV slot is freed twice within
\* one retract_decode call.
C38_NeverFreesPrefixSlots ==
    op.name = "retract_decode" =>
        /\ \A k \in 1..Len(op.arg.frees) :
              RowSlots(op.arg.frees[k], 0, op.arg.frees[k].prefix_len)
                  \cap Range(op.arg.frees[k].token_indices) = {}
        /\ Distinct(FreedSlots)

\* C38, amended: when the prefix cache supports eviction, retract_decode
\* never hands to the allocator's free a slot at a row column below
\* (len(prefix_indices) // page_size) * page_size of the retracted request,
\* which is the whole prefix when its length is a multiple of the page size
\* (always so with page size 1); the columns of a prefix that ends inside a
\* page, from the start of that page to len(prefix_indices), are freed with
\* the request's own slots. No KV slot is freed twice within one
\* retract_decode call.
C38_NeverFreesWholePrefixPages ==
    op.name = "retract_decode" =>
        /\ \A k \in 1..Len(op.arg.frees) :
              LET f == op.arg.frees[k]
              IN  /\ RowSlots(f, 0, PrefixPageStart(f)) \cap Range(f.token_indices) = {}
                  /\ RowSlots(f, PrefixPageStart(f), f.prefix_len)
                         \subseteq Range(f.token_indices)
        /\ Distinct(FreedSlots)

\* Two requests are retracted in one call with pages of two slots, one with
\* a prefix that ends inside its second page, and the cache evicts
C38_Witness ==
    /\ op.name = "retract_decode"
    /\ err = "none"
    /\ op.arg.server_args.page_size = 2
    /\ Len(op.arg.frees) >= 2
    /\ \E k \in 1..Len(op.arg.frees) : op.arg.frees[k].prefix_len = 3
    /\ \E k \in 1..Len(op.arg.frees) : op.arg.frees[k].evicted # << >>

----------------------------------------------------------------------------
(* Claims on termination (specification SpecFair) *)

\* C39: under fair scheduling (every unfinished request is decoded one token
\* at a time, with check_finished after each token) every request, its
\* max_new_tokens being finite, eventually reaches Finished, however often it
\* is retracted in between.
C39_EveryRequestFinishes == \A i \in Rids : <>finished(reqs[i])

\* A request that was retracted with a token decoded and went on to finish
\* by its length, with every output token still there
C39_Witness ==
    \E i \in Rids :
        /\ reqs[i].is_retracted
        /\ reqs[i].sampling_params.max_new_tokens >= 2
        /\ reqs[i].finished_reason =
               FINISH_LENGTH(reqs[i].sampling_params.max_new_tokens)
        /\ Len(reqs[i].output_ids) = reqs[i].sampling_params.max_new_tokens

----------------------------------------------------------------------------
(* Claims on a prefill that runs out of KV slots (specification SpecBatch) *)

\* This step is a prepare_for_extend that had its rows and then failed in
\* the allocation of the KV slots
ExtendFailsOnKvSlots ==
    /\ op'.name = "prepare_for_extend"
    /\ err' = "RuntimeError"
    /\ Len(Val(new_batch').reqs) <= Len(req_to_token_pool.free_slots)

\* C40: when the KV-slot allocation inside prepare_for_extend fails with the
\* fatal capacity error, the rows of the Request-Slot Pool that the call
\* allocated beforehand are not released and every request of the batch keeps
\* the req_pool_idx assigned in that call; the pool's free count is lower
\* than before the call by the batch size.
C40_FailedExtendKeepsRows ==
    [][ExtendFailsOnKvSlots =>
          LET b == Val(new_batch')
              bs == Len(b.reqs)
          IN  /\ Len(req_to_token_pool'.free_slots)
                     = Len(req_to_token_pool.free_slots) - bs
              /\ \A i \in 1..bs :
                    /\ reqs'[b.reqs[i]].req_pool_idx = req_to_token_pool.free_slots[i]
                    /\ reqs'[b.reqs[i]].req_pool_idx
                           \notin Range(req_to_token_pool'.free_slots)]_vars

\* A prefill batch of two requests whose KV slots could not be allocated: the
\* scheduler has failed, both requests hold a row and the rows are not free
C40_Witness ==
    /\ op.name = "prepare_for_extend"
    /\ err = "RuntimeError"
    /\ stage.new = "failed"
    /\ Len(Val(new_batch).reqs) = 2
    /\ Len(req_to_token_pool.free_slots) = ReqPoolSize - 2
    /\ \A i \in 1..2 :
          /\ reqs[Val(new_batch).reqs[i]].req_pool_idx # None
          /\ reqs[Val(new_batch).reqs[i]].req_pool_idx
                 \notin Range(req_to_token_pool.free_slots)

====
